---- MODULE Spec2Model ----
(***************************************************************************)
(* Model of the CDK application infrastructure/cdk/app.py of the NZ        *)
(* Companies Register: the six stack constructors, run in the order of     *)
(* app.py, each adding its construct descriptors to the construct tree,    *)
(* followed by app.synth(), which applies the tag aspects and resolves the *)
(* cross-stack references.  Declared settings that describe behaviour of   *)
(* the deployed resources (lifecycle rules, subscriptions, deletion        *)
(* protection) are interpreted by further specifications that extend the   *)
(* application with the operations those settings govern.                  *)
(***************************************************************************)
EXTENDS Integers, Sequences, FiniteSets, TLC

VARIABLES
    pc,          \* index into AppOrder of the next statement of app.py
    context,     \* the CDK context: [account, region], read by app.py:12-15
    zones,       \* number of availability zones the environment offers
    env,         \* cdk.Environment built by app.py:12-15
    stacks,      \* stack variable of app.py -> the attributes it exposes
    app,         \* construct id of a stack -> its class and its env
    stackTags,   \* construct id of a stack -> sequence of Tags.of(self).add
    tree,        \* construct tree: resource id -> descriptor
    template,    \* synthesized resources: resource id -> descriptor + Tags
    object,      \* the S3 object under observation (lifecycle)
    messages,    \* message id -> where the message is (SNS / SQS)
    deployed,    \* construct ids of the stacks currently deployed
    cloud,       \* ids of the resources that exist in the account
    response,    \* outcome of the last request made to the account
    request,     \* the last HTTP request received by a listener, as handled
    tasks,       \* the service under observation: desired count, cooldowns
    watch,       \* the alarm under observation: datapoints, state, actions
    images,      \* the ECR repository under observation: pushes, images held
    reminder     \* the SQS message under observation: queue, receive count

vars == <<pc, context, zones, env, stacks, app, stackTags, tree, template,
          object, messages, deployed, cloud, response, request, tasks, watch,
          images, reminder>>

runVars == <<object, messages, deployed, cloud, response, request, tasks, watch,
            images, reminder>>

----------------------------------------------------------------------------
(* Bounds *)

MaxZones == 4
MaxAge == 366
MaxMessages == 2
MaxSuffix == 2      \* characters of a request path after its prefix
MaxPushes == 12     \* images pushed to a repository
MaxReceives == 3    \* times a message is received from a queue

----------------------------------------------------------------------------
(* Values *)

None == "None"

Min(a, b) == IF a < b THEN a ELSE b

\* A resource id is <<construct id of the stack, logical id, index>>.
Id(stack, logical) == <<stack, logical, 0>>

\* The id obtained from a stack variable that is not bound.
NoId == <<"", "", 0>>

\* A property value: a literal, or an attribute of another construct that
\* is resolved at deployment.
Literal(s) == [literal |-> s]
Ref(id, attr) == [ref |-> id, attr |-> attr]

\* Duration.days, Duration.hours, Duration.minutes, Duration.seconds, in seconds.
Days(n) == n * 24 * 60 * 60
Hours(n) == n * 60 * 60
Minutes(n) == n * 60
Seconds(n) == n

Accounts == {None, "123456789012"}
Regions == {None, "", "us-east-1"}

----------------------------------------------------------------------------
(* app.py *)

\* app.py with DatabaseStack constructed before VpcStack.
AppOrderDatabaseFirst ==
    << "env", "DatabaseStack", "VpcStack", "SecurityStack", "StorageStack",
       "ComputeStack", "MonitoringStack", "synth" >>

\* The statements of app.py after app = cdk.App(), in source order.
AppOrder ==
    << "env", "VpcStack", "SecurityStack", "DatabaseStack", "StorageStack",
       "ComputeStack", "MonitoringStack", "synth" >>

Statement == IF pc \in DOMAIN AppOrder THEN AppOrder[pc] ELSE "exit"

\* A default taken only when x is None.
OrIfNone(x, y) == IF x = None THEN y ELSE x

\* x or y of Python: y when x is None or the empty string.
Or(x, y) == IF x = None \/ x = "" THEN y ELSE x

Environment(ctx) ==
    [account |-> ctx.account, region |-> Or(ctx.region, "ap-southeast-2")]

\* Attribute a of the stack bound to variable v of app.py; NoId stands for
\* the failed lookup of a variable that is not bound yet.
Attr(v, a) == IF v \in DOMAIN stacks THEN stacks[v][a] ELSE NoId

----------------------------------------------------------------------------
(* stacks/vpc_stack.py *)

SubnetConfiguration ==
    << [name |-> "Public",   subnet_type |-> "PUBLIC",              cidr_mask |-> 24],
       [name |-> "Private",  subnet_type |-> "PRIVATE_WITH_EGRESS", cidr_mask |-> 24],
       [name |-> "Database", subnet_type |-> "PRIVATE_ISOLATED",    cidr_mask |-> 24] >>

\* The VPC spread over four zones.
VpcPropsFourZones ==
    [vpc_name |-> "nz-companies-register-vpc", max_azs |-> 4,
     subnet_configuration |-> SubnetConfiguration,
     enable_dns_hostnames |-> TRUE, enable_dns_support |-> TRUE]

VpcProps ==
    [vpc_name |-> "nz-companies-register-vpc", max_azs |-> 3,
     subnet_configuration |-> SubnetConfiguration,
     enable_dns_hostnames |-> TRUE, enable_dns_support |-> TRUE]

\* ec2.Vpc creates one subnet per subnet configuration and zone used.
VpcSubnets(cid, nzones) ==
    [ i \in { <<cid, SubnetConfiguration[g].name, z>> :
                 g \in DOMAIN SubnetConfiguration,
                 z \in 1..Min(nzones, VpcProps.max_azs) } |->
        LET g == CHOOSE g \in DOMAIN SubnetConfiguration :
                     SubnetConfiguration[g].name = i[2]
        IN [type |-> "AWS::EC2::Subnet",
            props |-> [group |-> SubnetConfiguration[g].name,
                       subnet_type |-> SubnetConfiguration[g].subnet_type,
                       cidr_mask |-> SubnetConfiguration[g].cidr_mask,
                       zone |-> i[3],
                       map_public_ip_on_launch |->
                           SubnetConfiguration[g].subnet_type = "PUBLIC"],
            refs |-> {Id(cid, "NzCompaniesVpc")}] ]

Ingress(peer, protocol, port, description) ==
    [peer |-> peer, protocol |-> protocol, port |-> port,
     description |-> description]

\* ec2.Peer.any_ipv4() and a security group used as a peer.
AnyIpv4 == [cidr |-> "0.0.0.0/0"]
Group(id) == [security_group |-> id]

\* The add_ingress_rule calls on the three security groups.
AlbIngress ==
    << Ingress(AnyIpv4, "tcp", 80, "Allow HTTP from internet"),
       Ingress(AnyIpv4, "tcp", 443, "Allow HTTPS from internet") >>

\* The ECS security group opened to any address.
EcsIngressFromAnywhere(alb) ==
    << Ingress(AnyIpv4, "tcp", 8080, "Allow traffic from ALB") >>

EcsIngress(alb) ==
    << Ingress(Group(alb), "tcp", 8080, "Allow traffic from ALB") >>

DatabaseIngress(ecs) ==
    << Ingress(Group(ecs), "tcp", 5432, "Allow PostgreSQL from ECS") >>

\* A security group admits a packet when one of its ingress rules matches
\* the packet's protocol, port and source: any_ipv4 matches every source, a
\* security group used as peer matches the members of that group.
Admits(ingress, packet) ==
    \E i \in DOMAIN ingress :
        /\ ingress[i].protocol = packet.protocol
        /\ ingress[i].port = packet.port
        /\ \/ "cidr" \in DOMAIN ingress[i].peer
           \/ /\ "security_group" \in DOMAIN ingress[i].peer
              /\ ingress[i].peer.security_group \in packet.source

VpcStackResources(cid, nzones) ==
    LET vpc == Id(cid, "NzCompaniesVpc")
        alb == Id(cid, "AlbSecurityGroup")
        ecs == Id(cid, "EcsSecurityGroup")
        db  == Id(cid, "DatabaseSecurityGroup")
    IN  (vpc :> [type |-> "AWS::EC2::VPC", props |-> VpcProps, refs |-> {}])
     @@ VpcSubnets(cid, nzones)
     @@ (Id(cid, "FlowLogCloudWatch") :>
            [type |-> "AWS::EC2::FlowLog",
             props |-> [destination |-> "cloud-watch-logs", traffic_type |-> "ALL"],
             refs |-> {vpc}])
     @@ (alb :>
            [type |-> "AWS::EC2::SecurityGroup",
             props |-> [description |-> "Security group for Application Load Balancer",
                        security_group_name |-> "nz-companies-alb-sg",
                        ingress |-> AlbIngress],
             refs |-> {vpc}])
     @@ (ecs :>
            [type |-> "AWS::EC2::SecurityGroup",
             props |-> [description |-> "Security group for ECS tasks",
                        security_group_name |-> "nz-companies-ecs-sg",
                        ingress |-> EcsIngress(alb)],
             refs |-> {vpc, alb}])
     @@ (db :>
            [type |-> "AWS::EC2::SecurityGroup",
             props |-> [description |-> "Security group for RDS database",
                        security_group_name |-> "nz-companies-db-sg",
                        ingress |-> DatabaseIngress(ecs)],
             refs |-> {vpc, ecs}])

VpcStackTags ==
    << <<"Project", "NZ Companies Register">>,
       <<"Environment", "Production">>,
       <<"Component", "Networking">> >>

VpcStackAttrs(cid) ==
    [vpc |-> Id(cid, "NzCompaniesVpc"),
     alb_security_group |-> Id(cid, "AlbSecurityGroup"),
     ecs_security_group |-> Id(cid, "EcsSecurityGroup"),
     database_security_group |-> Id(cid, "DatabaseSecurityGroup")]

\* Stack.__init__ followed by the body of a stack constructor: the stack is
\* created in environment e, its constructs join the tree, its Tags.of(self)
\* calls are recorded and the app.py variable v is bound to the stack.
Construct(v, cid, class, e, resources, tags, attrs) ==
    /\ stacks' = (v :> attrs) @@ stacks
    /\ app' = (cid :> [class |-> class, env |-> e]) @@ app
    /\ stackTags' = (cid :> tags) @@ stackTags
    /\ tree' = resources @@ tree
    /\ pc' = pc + 1
    /\ UNCHANGED <<context, zones, env, template>>
    /\ UNCHANGED runVars

VpcStackInit ==
    /\ Statement = "VpcStack"
    /\ Construct("vpc_stack", "NzCompaniesVpc", "VpcStack", env,
                 VpcStackResources("NzCompaniesVpc", zones), VpcStackTags,
                 VpcStackAttrs("NzCompaniesVpc"))

----------------------------------------------------------------------------
(* stacks/storage_stack.py *)

BlockAll ==
    [block_public_acls |-> TRUE, block_public_policy |-> TRUE,
     ignore_public_acls |-> TRUE, restrict_public_buckets |-> TRUE]

\* The document rule with the first transition after 60 days.
DocumentLifecycleRulesLate ==
    << [id |-> "TransitionToIA", enabled |-> TRUE,
        transitions |-> << [storage_class |-> "STANDARD_IA", transition_after |-> 60],
                           [storage_class |-> "GLACIER", transition_after |-> 90] >>] >>

DocumentLifecycleRules ==
    << [id |-> "TransitionToIA", enabled |-> TRUE,
        transitions |-> << [storage_class |-> "STANDARD_IA", transition_after |-> 30],
                           [storage_class |-> "GLACIER", transition_after |-> 90] >>] >>

LogsLifecycleRules ==
    << [id |-> "DeleteOldLogs", enabled |-> TRUE, transitions |-> << >>,
        expiration |-> 365] >>

DocumentBucketProps(key) ==
    [bucket_name |-> "nz-companies-register-documents",
     versioned |-> TRUE,
     encryption |-> "aws:kms",
     encryption_key |-> key,
     block_public_access |-> BlockAll,
     removal_policy |-> "RETAIN",
     lifecycle_rules |-> DocumentLifecycleRules]

\* The logs bucket without block_public_access (the default of s3.Bucket
\* in place of BLOCK_ALL is modelled by all four flags off).
LogsBucketPropsPublic(key) ==
    [bucket_name |-> "nz-companies-register-logs",
     versioned |-> FALSE,
     encryption |-> "aws:kms",
     encryption_key |-> key,
     block_public_access |->
         [block_public_acls |-> FALSE, block_public_policy |-> FALSE,
          ignore_public_acls |-> FALSE, restrict_public_buckets |-> FALSE],
     removal_policy |-> "RETAIN",
     lifecycle_rules |-> LogsLifecycleRules]

LogsBucketProps(key) ==
    [bucket_name |-> "nz-companies-register-logs",
     versioned |-> FALSE,
     encryption |-> "aws:kms",
     encryption_key |-> key,
     block_public_access |-> BlockAll,
     removal_policy |-> "RETAIN",
     lifecycle_rules |-> LogsLifecycleRules]

NotificationQueueProps(key) ==
    [queue_name |-> "nz-companies-register-notifications",
     visibility_timeout_seconds |-> 300,
     message_retention_period_seconds |-> 1209600,
     encryption |-> "KMS", encryption_master_key |-> key]

NotificationDLQProps(key) ==
    [queue_name |-> "nz-companies-register-notifications-dlq",
     visibility_timeout_seconds |-> 300,
     message_retention_period_seconds |-> 1209600,
     encryption |-> "KMS", encryption_master_key |-> key]

ReminderQueueProps(key) ==
    [queue_name |-> "nz-companies-register-reminders",
     visibility_timeout_seconds |-> 300,
     message_retention_period_seconds |-> 1209600,
     encryption |-> "KMS", encryption_master_key |-> key]

\* The reminder DLQ with the SQS default retention of 4 days.
ReminderDLQPropsDefaultRetention(key) ==
    [queue_name |-> "nz-companies-register-reminders-dlq",
     visibility_timeout_seconds |-> 300,
     message_retention_period_seconds |-> 345600,
     encryption |-> "KMS", encryption_master_key |-> key]

ReminderDLQProps(key) ==
    [queue_name |-> "nz-companies-register-reminders-dlq",
     visibility_timeout_seconds |-> 300,
     message_retention_period_seconds |-> 1209600,
     encryption |-> "KMS", encryption_master_key |-> key]

\* The subscription without a dead letter queue.
SqsSubscriptionNoRedrive(topic, queue, dead_letter_queue) ==
    [protocol |-> "sqs", topic |-> topic, endpoint |-> queue]

\* notification_topic.add_subscription(sns.SqsSubscription(queue, dead_letter_queue))
SqsSubscription(topic, queue, dead_letter_queue) ==
    [protocol |-> "sqs", topic |-> topic, endpoint |-> queue,
     redrive_policy |-> [dead_letter_target |-> dead_letter_queue]]

StorageStackResources(cid) ==
    LET key   == Id(cid, "StorageKey")
        topic == Id(cid, "NotificationTopic")
        nq    == Id(cid, "NotificationQueue")
        ndlq  == Id(cid, "NotificationDLQ")
        Queue(props) == [type |-> "AWS::SQS::Queue", props |-> props, refs |-> {key}]
    IN  (key :> [type |-> "AWS::KMS::Key",
                 props |-> [description |-> "KMS key for NZ Companies Register storage encryption",
                            enable_key_rotation |-> TRUE,
                            removal_policy |-> "RETAIN"],
                 refs |-> {}])
     @@ (Id(cid, "DocumentBucket") :>
            [type |-> "AWS::S3::Bucket", props |-> DocumentBucketProps(key), refs |-> {key}])
     @@ (Id(cid, "LogsBucket") :>
            [type |-> "AWS::S3::Bucket", props |-> LogsBucketProps(key), refs |-> {key}])
     @@ (topic :>
            [type |-> "AWS::SNS::Topic",
             props |-> [topic_name |-> "nz-companies-register-notifications",
                        display_name |-> "NZ Companies Register Notifications",
                        master_key |-> key],
             refs |-> {key}])
     @@ (nq :> Queue(NotificationQueueProps(key)))
     @@ (ndlq :> Queue(NotificationDLQProps(key)))
     @@ (Id(cid, "NotificationSubscription") :>
            [type |-> "AWS::SNS::Subscription",
             props |-> SqsSubscription(topic, nq, ndlq),
             refs |-> {topic, nq, ndlq}])
     @@ (Id(cid, "ReminderQueue") :> Queue(ReminderQueueProps(key)))
     @@ (Id(cid, "ReminderDLQ") :> Queue(ReminderDLQProps(key)))

\* The tags of StorageStack with the Component of DatabaseStack.
StorageStackTagsOfDatabase ==
    << <<"Project", "NZ Companies Register">>,
       <<"Environment", "Production">>,
       <<"Component", "Database">> >>

StorageStackTags ==
    << <<"Project", "NZ Companies Register">>,
       <<"Environment", "Production">>,
       <<"Component", "Storage">> >>

StorageStackAttrs(cid) ==
    [kms_key |-> Id(cid, "StorageKey"),
     document_bucket |-> Id(cid, "DocumentBucket"),
     logs_bucket |-> Id(cid, "LogsBucket"),
     notification_topic |-> Id(cid, "NotificationTopic"),
     notification_queue |-> Id(cid, "NotificationQueue"),
     notification_dlq |-> Id(cid, "NotificationDLQ"),
     reminder_queue |-> Id(cid, "ReminderQueue"),
     reminder_dlq |-> Id(cid, "ReminderDLQ")]

StorageStackInit ==
    /\ Statement = "StorageStack"
    /\ Construct("storage_stack", "NzCompaniesStorage", "StorageStack", env,
                 StorageStackResources("NzCompaniesStorage"), StorageStackTags,
                 StorageStackAttrs("NzCompaniesStorage"))

----------------------------------------------------------------------------
(* stacks/database_stack.py *)

AuroraPostgres15_4 == [engine |-> "aurora-postgresql", version |-> "15.4"]

\* Names with separators (secret names, ARNs) are kept segment by segment.
\* The database secret named outside the application's prefix.
DatabaseSecretPropsUnprefixed ==
    [secret_name |-> << "nz-companies-db", "database" >>,
     description |-> "Database credentials for NZ Companies Register",
     generate_string_key |-> "password",
     password_length |-> 32]

DatabaseSecretProps ==
    [secret_name |-> << "nz-companies-register", "database" >>,
     description |-> "Database credentials for NZ Companies Register",
     generate_string_key |-> "password",
     password_length |-> 32]

\* The database subnet group selecting the public subnets.
DbSubnetGroupPropsPublic(vpc) ==
    [description |-> "Subnet group for NZ Companies Register database",
     vpc |-> vpc,
     subnet_group_name |-> "nz-companies-db-subnet-group",
     subnet_type |-> "PUBLIC"]

DbSubnetGroupProps(vpc) ==
    [description |-> "Subnet group for NZ Companies Register database",
     vpc |-> vpc,
     subnet_group_name |-> "nz-companies-db-subnet-group",
     subnet_type |-> "PRIVATE_ISOLATED"]

\* max_connections is kept as the characters of the string "200".
DbParameterGroupProps ==
    [engine |-> AuroraPostgres15_4,
     description |-> "Parameter group for NZ Companies Register database",
     parameters |-> [log_statement |-> "all",
                     log_min_duration_statement |-> "1000",
                     shared_preload_libraries |-> "pg_stat_statements",
                     max_connections |-> << "2", "0", "0" >>]]

\* rds.ClusterInstance.provisioned("Writer", ...)
WriterProps(parameter_group) ==
    [instance_class |-> "db.r6g.large",
     publicly_accessible |-> FALSE,
     auto_minor_version_upgrade |-> TRUE,
     allow_major_version_upgrade |-> FALSE,
     enable_performance_insights |-> TRUE,
     parameter_group |-> parameter_group]

\* The reader declared publicly accessible.
ReadersPublic(parameter_group) ==
    << [id |-> "Reader1",
        props |-> [instance_class |-> "db.r6g.large",
                   publicly_accessible |-> TRUE,
                   auto_minor_version_upgrade |-> TRUE,
                   allow_major_version_upgrade |-> FALSE,
                   enable_performance_insights |-> TRUE,
                   parameter_group |-> parameter_group]] >>

\* readers=[rds.ClusterInstance.provisioned("Reader1", ...)]
Readers(parameter_group) ==
    << [id |-> "Reader1",
        props |-> [instance_class |-> "db.r6g.large",
                   publicly_accessible |-> FALSE,
                   auto_minor_version_upgrade |-> TRUE,
                   allow_major_version_upgrade |-> FALSE,
                   enable_performance_insights |-> TRUE,
                   parameter_group |-> parameter_group]] >>

\* The backup window half an hour later, 03:30-04:30.
ClusterBackupLater ==
    [retention |-> Days(30),
     preferred_window |-> << "0", "3", ":", "3", "0", "-", "0", "4", ":", "3", "0" >>]

\* backup=rds.BackupProps(...) and preferred_maintenance_window; the window
\* strings are kept character by character.
ClusterBackup ==
    [retention |-> Days(30),
     preferred_window |-> << "0", "3", ":", "0", "0", "-", "0", "4", ":", "0", "0" >>]

PreferredMaintenanceWindow ==
    << "s", "u", "n", ":", "0", "4", ":", "0", "0", "-",
       "s", "u", "n", ":", "0", "5", ":", "0", "0" >>

\* The cluster without deletion protection.
ClusterUnprotected ==
    [storage_encrypted |-> TRUE,
     monitoring_interval |-> Seconds(60),
     cloudwatch_logs_exports |-> << "postgresql" >>,
     deletion_protection |-> FALSE,
     removal_policy |-> "RETAIN"]

ClusterProtection ==
    [storage_encrypted |-> TRUE,
     monitoring_interval |-> Seconds(60),
     cloudwatch_logs_exports |-> << "postgresql" >>,
     deletion_protection |-> TRUE,
     removal_policy |-> "RETAIN"]

DatabaseClusterProps(vpc, secret, subnet_group, parameter_group) ==
    [cluster_identifier |-> "nz-companies-register-db",
     engine |-> AuroraPostgres15_4,
     credentials |-> secret,
     default_database_name |-> "nz_companies_register",
     vpc |-> vpc,
     subnet_group |-> subnet_group,
     parameter_group |-> parameter_group,
     backup |-> ClusterBackup,
     preferred_maintenance_window |-> PreferredMaintenanceWindow]
    @@ ClusterProtection

Attribute(name, type) == [name |-> name, type |-> type]

DocumentTableProps ==
    [table_name |-> "nz-companies-register-documents",
     partition_key |-> Attribute("document_id", "S"),
     sort_key |-> Attribute("version", "S"),
     billing_mode |-> "PAY_PER_REQUEST",
     encryption |-> "AWS_MANAGED",
     point_in_time_recovery |-> TRUE,
     removal_policy |-> "RETAIN",
     attribute_definitions |-> << Attribute("document_id", "S"), Attribute("version", "S") >>,
     global_secondary_indexes |-> << >>]

\* Append to seq those elements of more that seq does not hold yet.
RECURSIVE Register(_, _)
Register(seq, more) ==
    IF more = << >> THEN seq
    ELSE Register(IF \E i \in DOMAIN seq : seq[i] = Head(more)
                     THEN seq ELSE Append(seq, Head(more)),
                  Tail(more))

\* add_global_secondary_index that leaves the attribute definitions alone.
AddGlobalSecondaryIndexKeysUndefined(table, index_name, partition_key, sort_key) ==
    [table EXCEPT
        !.global_secondary_indexes =
            Append(@, [index_name |-> index_name,
                       partition_key |-> partition_key, sort_key |-> sort_key])]

\* dynamodb.Table.add_global_secondary_index: the index joins the table and
\* its key attributes join the attribute definitions.
AddGlobalSecondaryIndex(table, index_name, partition_key, sort_key) ==
    [table EXCEPT
        !.global_secondary_indexes =
            Append(@, [index_name |-> index_name,
                       partition_key |-> partition_key, sort_key |-> sort_key]),
        !.attribute_definitions = Register(@, << partition_key, sort_key >>)]

DatabaseStackResources(cid, vpc) ==
    LET secret  == Id(cid, "DatabaseSecret")
        subnets == Id(cid, "DatabaseSubnetGroup")
        params  == Id(cid, "DatabaseParameterGroup")
        cluster == Id(cid, "Database")
        Instance(props) ==
            [type |-> "AWS::RDS::DBInstance",
             props |-> props @@ [cluster |-> cluster],
             refs |-> {cluster, props.parameter_group}]
    IN  (secret :> [type |-> "AWS::SecretsManager::Secret",
                    props |-> DatabaseSecretProps, refs |-> {}])
     @@ (subnets :> [type |-> "AWS::RDS::DBSubnetGroup",
                     props |-> DbSubnetGroupProps(vpc), refs |-> {vpc}])
     @@ (params :> [type |-> "AWS::RDS::DBParameterGroup",
                    props |-> DbParameterGroupProps, refs |-> {}])
     @@ (cluster :> [type |-> "AWS::RDS::DBCluster",
                     props |-> DatabaseClusterProps(vpc, secret, subnets, params),
                     refs |-> {vpc, secret, subnets, params}])
     @@ (Id(cid, "Writer") :> Instance(WriterProps(params) @@ [role |-> "writer"]))
     @@ [ i \in { Id(cid, Readers(params)[n].id) : n \in DOMAIN Readers(params) } |->
            LET n == CHOOSE n \in DOMAIN Readers(params) : Readers(params)[n].id = i[2]
            IN Instance(Readers(params)[n].props @@ [role |-> "reader"]) ]
     @@ (Id(cid, "DocumentTable") :>
            [type |-> "AWS::DynamoDB::Table",
             props |-> AddGlobalSecondaryIndex(DocumentTableProps, "CompanyIdIndex",
                           Attribute("company_id", "S"), Attribute("created_at", "S")),
             refs |-> {}])

DatabaseStackTags ==
    << <<"Project", "NZ Companies Register">>,
       <<"Environment", "Production">>,
       <<"Component", "Database">> >>

DatabaseStackAttrs(cid) ==
    [database_secret |-> Id(cid, "DatabaseSecret"),
     database |-> Id(cid, "Database"),
     document_table |-> Id(cid, "DocumentTable")]

DatabaseStackInit ==
    /\ Statement = "DatabaseStack"
    /\ Construct("database_stack", "NzCompaniesDatabase", "DatabaseStack", env,
                 DatabaseStackResources("NzCompaniesDatabase", Attr("vpc_stack", "vpc")),
                 DatabaseStackTags, DatabaseStackAttrs("NzCompaniesDatabase"))

----------------------------------------------------------------------------
(* stacks/security_stack.py *)

\* arn:aws:<service>:<region>:<account>:<resource>, the resource split at
\* its ':' and '/' separators.
Arn(service, region, account, resource) ==
    [service |-> service, region |-> region, account |-> account,
     resource |-> resource]

Statement_(actions, resources) ==
    [effect |-> "ALLOW", actions |-> actions, resources |-> resources]

S3PolicyDocument ==
    << Statement_({"s3:GetObject", "s3:PutObject", "s3:DeleteObject", "s3:ListBucket"},
                  {Arn("s3", "", "", << "nz-companies-register-documents" >>),
                   Arn("s3", "", "", << "nz-companies-register-documents", "*" >>)}) >>

DynamodbPolicyDocument ==
    << Statement_({"dynamodb:GetItem", "dynamodb:PutItem", "dynamodb:UpdateItem",
                   "dynamodb:DeleteItem", "dynamodb:Query", "dynamodb:Scan"},
                  {Arn("dynamodb", "*", "*", << "table", "nz-companies-register-documents" >>),
                   Arn("dynamodb", "*", "*",
                       << "table", "nz-companies-register-documents", "index", "*" >>)}) >>

SnsSqsPolicyDocument ==
    << Statement_({"sns:Publish", "sqs:SendMessage", "sqs:ReceiveMessage",
                   "sqs:DeleteMessage", "sqs:GetQueueAttributes"},
                  {Arn("sns", "*", "*", << "nz-companies-register-notifications" >>),
                   Arn("sqs", "*", "*", << "nz-companies-register-notifications" >>),
                   Arn("sqs", "*", "*", << "nz-companies-register-reminders" >>)}) >>

SecretsPolicyDocument ==
    << Statement_({"secretsmanager:GetSecretValue", "secretsmanager:DescribeSecret"},
                  {Arn("secretsmanager", "*", "*",
                       << "secret", "nz-companies-register", "*" >>)}) >>

\* ecs_execution_role.add_to_policy(...)
ExecutionRoleStatement(key) ==
    [effect |-> "ALLOW",
     actions |-> {"secretsmanager:GetSecretValue", "ssm:GetParameters",
                  "ssm:GetParameter", "kms:Decrypt"},
     resources |-> {Arn("secretsmanager", "*", "*",
                        << "secret", "nz-companies-register", "*" >>),
                    Arn("ssm", "*", "*", << "parameter", "nz-companies-register", "*" >>)},
     keys |-> {key}]

SecurityStackResources(cid) ==
    LET key  == Id(cid, "ApplicationKey")
        task == Id(cid, "EcsTaskRole")
        exec == Id(cid, "EcsExecutionRole")
        Policy(name, document) ==
            [type |-> "AWS::IAM::Policy",
             props |-> [policy_name |-> name, policy_document |-> document,
                        roles |-> {task}],
             refs |-> {task}]
        Secret(name, description, string_key, length) ==
            [type |-> "AWS::SecretsManager::Secret",
             props |-> [secret_name |-> name, description |-> description,
                        generate_string_key |-> string_key, password_length |-> length],
             refs |-> {}]
        Parameter(name, value, description) ==
            [type |-> "AWS::SSM::Parameter",
             props |-> [parameter_name |-> name, string_value |-> value,
                        description |-> description],
             refs |-> {}]
    IN  (key :> [type |-> "AWS::KMS::Key",
                 props |-> [description |-> "KMS key for NZ Companies Register application encryption",
                            enable_key_rotation |-> TRUE,
                            removal_policy |-> "RETAIN",
                            grant_encrypt_decrypt |-> {task}],
                 refs |-> {task}])
     @@ (Id(cid, "ApplicationKeyAlias") :>
            [type |-> "AWS::KMS::Alias",
             props |-> [alias_name |-> "alias/nz-companies-register", target_key |-> key],
             refs |-> {key}])
     @@ (task :>
            [type |-> "AWS::IAM::Role",
             props |-> [role_name |-> "nz-companies-register-ecs-task-role",
                        assumed_by |-> "ecs-tasks.amazonaws.com",
                        description |-> "Role for NZ Companies Register ECS tasks",
                        managed_policies |-> << "CloudWatchAgentServerPolicy",
                                                "AWSXRayDaemonWriteAccess" >>,
                        statements |-> << >>],
             refs |-> {}])
     @@ (exec :>
            [type |-> "AWS::IAM::Role",
             props |-> [role_name |-> "nz-companies-register-ecs-execution-role",
                        assumed_by |-> "ecs-tasks.amazonaws.com",
                        description |-> "Role for ECS task execution",
                        managed_policies |-> << "service-role/AmazonECSTaskExecutionRolePolicy" >>,
                        statements |-> << ExecutionRoleStatement(key) >>],
             refs |-> {key}])
     @@ (Id(cid, "S3Policy") :> Policy("nz-companies-register-s3-policy", S3PolicyDocument))
     @@ (Id(cid, "DynamoDBPolicy") :>
            Policy("nz-companies-register-dynamodb-policy", DynamodbPolicyDocument))
     @@ (Id(cid, "SNSSQSPolicy") :>
            Policy("nz-companies-register-sns-sqs-policy", SnsSqsPolicyDocument))
     @@ (Id(cid, "SecretsPolicy") :>
            Policy("nz-companies-register-secrets-policy", SecretsPolicyDocument))
     @@ (Id(cid, "JWTSecret") :>
            Secret(<< "nz-companies-register", "jwt-secret" >>,
                   "JWT signing secret for NZ Companies Register", "jwt_secret", 64))
     @@ (Id(cid, "ExternalAPIKeys") :>
            Secret(<< "nz-companies-register", "external-api-keys" >>,
                   "API keys for external services", "placeholder", 32))
     @@ (Id(cid, "AppEnvironment") :>
            Parameter(<< "nz-companies-register", "environment" >>, "production",
                      "Application environment"))
     @@ (Id(cid, "AppVersion") :>
            Parameter(<< "nz-companies-register", "version" >>, "1.0.0",
                      "Application version"))
     @@ (Id(cid, "JWTIssuer") :>
            Parameter(<< "nz-companies-register", "jwt-issuer" >>,
                      "https://nz-companies-register.auth0.com/", "JWT issuer URL"))
     @@ (Id(cid, "CORSOrigins") :>
            Parameter(<< "nz-companies-register", "cors-origins" >>,
                      "https://companies.govt.nz,https://www.companies.govt.nz",
                      "Allowed CORS origins"))

SecurityStackTags ==
    << <<"Project", "NZ Companies Register">>,
       <<"Environment", "Production">>,
       <<"Component", "Security">> >>

SecurityStackAttrs(cid) ==
    [application_key |-> Id(cid, "ApplicationKey"),
     ecs_task_role |-> Id(cid, "EcsTaskRole"),
     ecs_execution_role |-> Id(cid, "EcsExecutionRole"),
     jwt_secret |-> Id(cid, "JWTSecret"),
     external_api_keys |-> Id(cid, "ExternalAPIKeys")]

SecurityStackInit ==
    /\ Statement = "SecurityStack"
    /\ Construct("security_stack", "NzCompaniesSecurity", "SecurityStack", env,
                 SecurityStackResources("NzCompaniesSecurity"), SecurityStackTags,
                 SecurityStackAttrs("NzCompaniesSecurity"))

----------------------------------------------------------------------------
(* stacks/compute_stack.py *)

\* The repositories declared without lifecycle rules.
RepositoryPropsKeepAll(name) ==
    [repository_name |-> name,
     image_scan_on_push |-> TRUE,
     lifecycle_rules |-> << >>]

RepositoryProps(name) ==
    [repository_name |-> name,
     image_scan_on_push |-> TRUE,
     lifecycle_rules |-> << [description |-> "Keep last 10 images",
                             max_image_count |-> 10] >>]

HealthCheck(path) ==
    [enabled |-> TRUE, path |-> path, interval |-> Seconds(30),
     timeout |-> Seconds(5), healthy_threshold_count |-> 2,
     unhealthy_threshold_count |-> 5]

BackendTargetGroupProps(vpc) ==
    [target_group_name |-> "nz-companies-backend-tg", port |-> 8080,
     protocol |-> "HTTP", vpc |-> vpc, target_type |-> "IP",
     health_check |-> HealthCheck("/api/actuator/health")]

FrontendTargetGroupProps(vpc) ==
    [target_group_name |-> "nz-companies-frontend-tg", port |-> 80,
     protocol |-> "HTTP", vpc |-> vpc, target_type |-> "IP",
     health_check |-> HealthCheck("/")]

\* The HTTP listener with a temporary redirect.
HttpListenerPropsTemporary(alb) ==
    [load_balancer |-> alb, port |-> 80, protocol |-> "HTTP",
     default_action |-> [kind |-> "redirect", protocol |-> "HTTPS",
                         port |-> "443", permanent |-> FALSE]]

HttpListenerProps(alb) ==
    [load_balancer |-> alb, port |-> 80, protocol |-> "HTTP",
     default_action |-> [kind |-> "redirect", protocol |-> "HTTPS",
                         port |-> "443", permanent |-> TRUE]]

HttpsListenerProps(alb) ==
    [load_balancer |-> alb, port |-> 443, protocol |-> "HTTPS",
     default_action |-> [kind |-> "fixed_response", status_code |-> 404,
                         content_type |-> "text/plain",
                         message_body |-> "Not Found"]]

\* The backend rule declared after the frontend rule in priority.
BackendRulePropsLast(listener, target_group) ==
    [listener |-> listener, priority |-> 300,
     conditions |-> << [path_patterns |-> << << "/", "a", "p", "i", "/", "*" >> >>] >>,
     action |-> [kind |-> "forward", target_groups |-> << target_group >>]]

\* Path patterns are kept as the characters of the pattern string.
BackendRuleProps(listener, target_group) ==
    [listener |-> listener, priority |-> 100,
     conditions |-> << [path_patterns |-> << << "/", "a", "p", "i", "/", "*" >> >>] >>,
     action |-> [kind |-> "forward", target_groups |-> << target_group >>]]

FrontendRuleProps(listener, target_group) ==
    [listener |-> listener, priority |-> 200,
     conditions |-> << [path_patterns |-> << << "/", "*" >> >>] >>,
     action |-> [kind |-> "forward", target_groups |-> << target_group >>]]

LogGroupProps(name) ==
    [log_group_name |-> name, retention |-> "ONE_MONTH",
     removal_policy |-> "DESTROY"]

\* iam.Role.from_role_name: a role looked up by its name, not a construct.
FromRoleName(name) == [role_name |-> name]

BackendContainer(repository, log_group, region, database, document_bucket) ==
    [id |-> "BackendContainer",
     image |-> [repository |-> repository, tag |-> "latest"],
     container_name |-> "nz-companies-register-backend",
     environment |-> [SPRING_PROFILES_ACTIVE |-> Literal("production"),
                      AWS_REGION |-> Literal(region),
                      DB_HOST |-> Ref(database, "cluster_endpoint.hostname"),
                      DB_PORT |-> Literal("5432"),
                      DB_NAME |-> Literal("nz_companies_register"),
                      S3_DOCUMENT_BUCKET |-> Ref(document_bucket, "bucket_name")],
     secrets |-> [DB_USERNAME |-> [secret |-> Ref(database, "secret"), field |-> "username"],
                  DB_PASSWORD |-> [secret |-> Ref(database, "secret"), field |-> "password"]],
     logging |-> [stream_prefix |-> "backend", log_group |-> log_group],
     health_check |-> [command |-> << "CMD-SHELL",
                           "curl -f http://localhost:8080/api/actuator/health || exit 1" >>,
                       interval |-> Seconds(30), timeout |-> Seconds(5),
                       retries |-> 3, start_period |-> Seconds(60)],
     port_mappings |-> << [container_port |-> 8080, protocol |-> "TCP"] >>]

FrontendContainer(repository, log_group) ==
    [id |-> "FrontendContainer",
     image |-> [repository |-> repository, tag |-> "latest"],
     container_name |-> "nz-companies-register-frontend",
     logging |-> [stream_prefix |-> "frontend", log_group |-> log_group],
     health_check |-> [command |-> << "CMD-SHELL", "curl -f http://localhost:80 || exit 1" >>,
                       interval |-> Seconds(30), timeout |-> Seconds(5),
                       retries |-> 3, start_period |-> Seconds(30)],
     port_mappings |-> << [container_port |-> 80, protocol |-> "TCP"] >>]

BackendTaskDefinitionProps(container) ==
    [family |-> "nz-companies-register-backend",
     memory_limit_mib |-> 2048, cpu |-> 1024,
     execution_role |-> FromRoleName("nz-companies-register-ecs-execution-role"),
     task_role |-> FromRoleName("nz-companies-register-ecs-task-role"),
     containers |-> << container >>]

FrontendTaskDefinitionProps(container) ==
    [family |-> "nz-companies-register-frontend",
     memory_limit_mib |-> 512, cpu |-> 256,
     execution_role |-> FromRoleName("nz-companies-register-ecs-execution-role"),
     containers |-> << container >>]

\* ecs.FargateService(...) followed by attach_to_application_target_group.
ServiceProps(name, cluster, task_definition, target_group) ==
    [service_name |-> name,
     cluster |-> cluster,
     task_definition |-> task_definition,
     desired_count |-> 2,
     assign_public_ip |-> FALSE,
     subnet_type |-> "PRIVATE_WITH_EGRESS",
     enable_execute_command |-> TRUE,
     enable_logging |-> TRUE,
     circuit_breaker |-> [rollback |-> TRUE],
     target_groups |-> << target_group >>]

\* auto_scale_task_count and scale_on_*_utilization
BackendScaling ==
    [min_capacity |-> 2, max_capacity |-> 10,
     policies |-> << [id |-> "BackendCPUScaling", metric |-> "cpu",
                      target_utilization_percent |-> 70,
                      scale_in_cooldown |-> Minutes(5),
                      scale_out_cooldown |-> Minutes(5)],
                     [id |-> "BackendMemoryScaling", metric |-> "memory",
                      target_utilization_percent |-> 80,
                      scale_in_cooldown |-> Minutes(5),
                      scale_out_cooldown |-> Minutes(5)] >>]

\* The frontend service allowed to grow as far as the backend service.
FrontendScalingToTen ==
    [min_capacity |-> 2, max_capacity |-> 10,
     policies |-> << [id |-> "FrontendCPUScaling", metric |-> "cpu",
                      target_utilization_percent |-> 70,
                      scale_in_cooldown |-> Minutes(5),
                      scale_out_cooldown |-> Minutes(5)] >>]

FrontendScaling ==
    [min_capacity |-> 2, max_capacity |-> 6,
     policies |-> << [id |-> "FrontendCPUScaling", metric |-> "cpu",
                      target_utilization_percent |-> 70,
                      scale_in_cooldown |-> Minutes(5),
                      scale_out_cooldown |-> Minutes(5)] >>]

ComputeStackResources(cid, region, vpc, database, document_bucket) ==
    LET brepo == Id(cid, "BackendRepository")
        frepo == Id(cid, "FrontendRepository")
        cluster == Id(cid, "Cluster")
        alb == Id(cid, "ALB")
        btg == Id(cid, "BackendTargetGroup")
        ftg == Id(cid, "FrontendTargetGroup")
        https == Id(cid, "HTTPSListener")
        blog == Id(cid, "BackendLogGroup")
        flog == Id(cid, "FrontendLogGroup")
        btask == Id(cid, "BackendTaskDefinition")
        ftask == Id(cid, "FrontendTaskDefinition")
        bsvc == Id(cid, "BackendService")
        fsvc == Id(cid, "FrontendService")
        Scaling(service, scaling) ==
            [type |-> "AWS::ApplicationAutoScaling::ScalableTarget",
             props |-> [service |-> service, min_capacity |-> scaling.min_capacity,
                        max_capacity |-> scaling.max_capacity],
             refs |-> {service}]
        Policies(service, target, scaling) ==
            [ i \in { Id(cid, scaling.policies[n].id) : n \in DOMAIN scaling.policies } |->
                LET n == CHOOSE n \in DOMAIN scaling.policies : scaling.policies[n].id = i[2]
                IN [type |-> "AWS::ApplicationAutoScaling::ScalingPolicy",
                    props |-> scaling.policies[n] @@ [service |-> service, target |-> target],
                    refs |-> {service, target}] ]
    IN  (brepo :> [type |-> "AWS::ECR::Repository",
                   props |-> RepositoryProps("nz-companies-register/backend"), refs |-> {}])
     @@ (frepo :> [type |-> "AWS::ECR::Repository",
                   props |-> RepositoryProps("nz-companies-register/frontend"), refs |-> {}])
     @@ (cluster :> [type |-> "AWS::ECS::Cluster",
                     props |-> [cluster_name |-> "nz-companies-register-cluster",
                                vpc |-> vpc,
                                enable_fargate_capacity_providers |-> TRUE,
                                container_insights |-> TRUE],
                     refs |-> {vpc}])
     @@ (alb :> [type |-> "AWS::ElasticLoadBalancingV2::LoadBalancer",
                 props |-> [load_balancer_name |-> "nz-companies-register-alb",
                            vpc |-> vpc,
                            internet_facing |-> TRUE,
                            security_group |-> Ref(vpc, "vpc_default_security_group")],
                 refs |-> {vpc}])
     @@ (btg :> [type |-> "AWS::ElasticLoadBalancingV2::TargetGroup",
                 props |-> BackendTargetGroupProps(vpc), refs |-> {vpc}])
     @@ (ftg :> [type |-> "AWS::ElasticLoadBalancingV2::TargetGroup",
                 props |-> FrontendTargetGroupProps(vpc), refs |-> {vpc}])
     @@ (Id(cid, "HTTPListener") :>
            [type |-> "AWS::ElasticLoadBalancingV2::Listener",
             props |-> HttpListenerProps(alb), refs |-> {alb}])
     @@ (https :>
            [type |-> "AWS::ElasticLoadBalancingV2::Listener",
             props |-> HttpsListenerProps(alb), refs |-> {alb}])
     @@ (Id(cid, "BackendRule") :>
            [type |-> "AWS::ElasticLoadBalancingV2::ListenerRule",
             props |-> BackendRuleProps(https, btg), refs |-> {https, btg}])
     @@ (Id(cid, "FrontendRule") :>
            [type |-> "AWS::ElasticLoadBalancingV2::ListenerRule",
             props |-> FrontendRuleProps(https, ftg), refs |-> {https, ftg}])
     @@ (blog :> [type |-> "AWS::Logs::LogGroup",
                  props |-> LogGroupProps("/ecs/nz-companies-register-backend"),
                  refs |-> {}])
     @@ (flog :> [type |-> "AWS::Logs::LogGroup",
                  props |-> LogGroupProps("/ecs/nz-companies-register-frontend"),
                  refs |-> {}])
     @@ (btask :>
            [type |-> "AWS::ECS::TaskDefinition",
             props |-> BackendTaskDefinitionProps(
                           BackendContainer(brepo, blog, region, database, document_bucket)),
             refs |-> {brepo, blog, database, document_bucket}])
     @@ (ftask :>
            [type |-> "AWS::ECS::TaskDefinition",
             props |-> FrontendTaskDefinitionProps(FrontendContainer(frepo, flog)),
             refs |-> {frepo, flog}])
     @@ (bsvc :>
            [type |-> "AWS::ECS::Service",
             props |-> ServiceProps("nz-companies-register-backend", cluster, btask, btg),
             refs |-> {cluster, btask, btg}])
     @@ (fsvc :>
            [type |-> "AWS::ECS::Service",
             props |-> ServiceProps("nz-companies-register-frontend", cluster, ftask, ftg),
             refs |-> {cluster, ftask, ftg}])
     @@ (Id(cid, "BackendScaling") :> Scaling(bsvc, BackendScaling))
     @@ Policies(bsvc, Id(cid, "BackendScaling"), BackendScaling)
     @@ (Id(cid, "FrontendScaling") :> Scaling(fsvc, FrontendScaling))
     @@ Policies(fsvc, Id(cid, "FrontendScaling"), FrontendScaling)

ComputeStackTags ==
    << <<"Project", "NZ Companies Register">>,
       <<"Environment", "Production">>,
       <<"Component", "Compute">> >>

ComputeStackAttrs(cid) ==
    [cluster |-> Id(cid, "Cluster"),
     alb |-> Id(cid, "ALB"),
     backend_service |-> Id(cid, "BackendService"),
     frontend_service |-> Id(cid, "FrontendService")]

ComputeStackInit ==
    /\ Statement = "ComputeStack"
    /\ Construct("compute_stack", "NzCompaniesCompute", "ComputeStack", env,
                 ComputeStackResources("NzCompaniesCompute", env.region,
                     Attr("vpc_stack", "vpc"), Attr("database_stack", "database"),
                     Attr("storage_stack", "document_bucket")),
                 ComputeStackTags, ComputeStackAttrs("NzCompaniesCompute"))

----------------------------------------------------------------------------
(* stacks/monitoring_stack.py *)

Metric(namespace, metric_name, dimensions_map, statistic, period) ==
    [namespace |-> namespace, metric_name |-> metric_name,
     dimensions_map |-> dimensions_map, statistic |-> statistic,
     period |-> period]

\* cloudwatch.Alarm(...).add_alarm_action(cw_actions.SnsAction(topic))
Alarm(name, description, metric, threshold, periods, operator, missing, topic) ==
    [alarm_name |-> name, alarm_description |-> description, metric |-> metric,
     threshold |-> threshold, evaluation_periods |-> periods,
     comparison_operator |-> operator, treat_missing_data |-> missing,
     alarm_actions |-> {topic}]

\* dimensions_map of the metrics of a service, of the cluster and of the ALB
ServiceDimensions(compute) ==
    [ServiceName |-> Ref(compute.backend_service, "service_name"),
     ClusterName |-> Ref(compute.cluster, "cluster_name")]

ClusterDimensions(compute) ==
    [ClusterName |-> Ref(compute.cluster, "cluster_name")]

AlbDimensions(compute) ==
    [LoadBalancer |-> Ref(compute.alb, "load_balancer_full_name")]

NoDimensions == [d \in {} |-> Literal("")]

\* dimensions_map of the metrics of the "Database Metrics" widget
DatabaseWidgetDimensions == [DBClusterIdentifier |-> Literal("nz-companies-register-db")]

\* The constructs a dimensions map refers to.
DimensionRefs(dimensions_map) ==
    { dimensions_map[d].ref :
        d \in { k \in DOMAIN dimensions_map : "ref" \in DOMAIN dimensions_map[k] } }

AlarmResource(alarm) ==
    [type |-> "AWS::CloudWatch::Alarm", props |-> alarm,
     refs |-> DimensionRefs(alarm.metric.dimensions_map) \cup alarm.alarm_actions]

create_application_alarms(cid, topic, compute) ==
       (Id(cid, "BackendHighCPU") :> AlarmResource(
            Alarm("nz-companies-register-backend-high-cpu",
                  "Backend service CPU utilization is high",
                  Metric("AWS/ECS", "CPUUtilization", ServiceDimensions(compute),
                         "Average", Minutes(5)),
                  80, 2, "GREATER_THAN_THRESHOLD", "NOT_BREACHING", topic)))
    @@ (Id(cid, "BackendHighMemory") :> AlarmResource(
            Alarm("nz-companies-register-backend-high-memory",
                  "Backend service memory utilization is high",
                  Metric("AWS/ECS", "MemoryUtilization", ServiceDimensions(compute),
                         "Average", Minutes(5)),
                  85, 2, "GREATER_THAN_THRESHOLD", "NOT_BREACHING", topic)))
    @@ (Id(cid, "BackendTaskCountLow") :> AlarmResource(
            Alarm("nz-companies-register-backend-task-count-low",
                  "Backend service task count is below minimum",
                  Metric("AWS/ECS", "RunningTaskCount", ServiceDimensions(compute),
                         "Average", Minutes(1)),
                  1, 2, "LESS_THAN_THRESHOLD", "BREACHING", topic)))

create_infrastructure_alarms(cid, topic, compute) ==
       (Id(cid, "ALBHighLatency") :> AlarmResource(
            Alarm("nz-companies-register-alb-high-latency",
                  "ALB target response time is high",
                  Metric("AWS/ApplicationELB", "TargetResponseTime",
                         AlbDimensions(compute), "Average", Minutes(5)),
                  1, 2, "GREATER_THAN_THRESHOLD", "NOT_BREACHING", topic)))
    @@ (Id(cid, "ALBHighErrorRate") :> AlarmResource(
            Alarm("nz-companies-register-alb-high-error-rate",
                  "ALB 5xx error rate is high",
                  Metric("AWS/ApplicationELB", "HTTPCode_Target_5XX_Count",
                         AlbDimensions(compute), "Sum", Minutes(5)),
                  10, 2, "GREATER_THAN_THRESHOLD", "NOT_BREACHING", topic)))
    @@ (Id(cid, "ECSClusterHighCPU") :> AlarmResource(
            Alarm("nz-companies-register-ecs-cluster-high-cpu",
                  "ECS cluster CPU reservation is high",
                  Metric("AWS/ECS", "CPUReservation", ClusterDimensions(compute),
                         "Average", Minutes(5)),
                  80, 2, "GREATER_THAN_THRESHOLD", "NOT_BREACHING", topic)))

\* The CPU alarm declared without add_alarm_action.
RDSHighCPUSilent(topic) ==
    [ Alarm("nz-companies-register-rds-high-cpu", "RDS CPU utilization is high",
            Metric("AWS/RDS", "CPUUtilization",
                   [DBClusterIdentifier |-> Literal("nz-companies-register-db")],
                   "Average", Minutes(5)),
            80, 2, "GREATER_THAN_THRESHOLD", "NOT_BREACHING", topic)
      EXCEPT !.alarm_actions = {} ]

RDSHighCPU(topic) ==
    Alarm("nz-companies-register-rds-high-cpu", "RDS CPU utilization is high",
          Metric("AWS/RDS", "CPUUtilization",
                 [DBClusterIdentifier |-> Literal("nz-companies-register-db")],
                 "Average", Minutes(5)),
          80, 2, "GREATER_THAN_THRESHOLD", "NOT_BREACHING", topic)

\* The connections alarm set at the connection limit.
RDSHighConnectionsAtLimit(topic) ==
    Alarm("nz-companies-register-rds-high-connections", "RDS connection count is high",
          Metric("AWS/RDS", "DatabaseConnections",
                 [DBClusterIdentifier |-> Literal("nz-companies-register-db")],
                 "Average", Minutes(5)),
          200, 2, "GREATER_THAN_THRESHOLD", "NOT_BREACHING", topic)

RDSHighConnections(topic) ==
    Alarm("nz-companies-register-rds-high-connections", "RDS connection count is high",
          Metric("AWS/RDS", "DatabaseConnections",
                 [DBClusterIdentifier |-> Literal("nz-companies-register-db")],
                 "Average", Minutes(5)),
          160, 2, "GREATER_THAN_THRESHOLD", "NOT_BREACHING", topic)

\* The throttling alarm on a table name no stack declares.
DynamoDBThrottlingOtherTable(topic) ==
    Alarm("nz-companies-register-dynamodb-throttling",
          "DynamoDB is experiencing throttling",
          Metric("AWS/DynamoDB", "ReadThrottledEvents",
                 [TableName |-> Literal("nz-companies-register-document")],
                 "Sum", Minutes(5)),
          0, 1, "GREATER_THAN_THRESHOLD", "NOT_BREACHING", topic)

DynamoDBThrottling(topic) ==
    Alarm("nz-companies-register-dynamodb-throttling",
          "DynamoDB is experiencing throttling",
          Metric("AWS/DynamoDB", "ReadThrottledEvents",
                 [TableName |-> Literal("nz-companies-register-documents")],
                 "Sum", Minutes(5)),
          0, 1, "GREATER_THAN_THRESHOLD", "NOT_BREACHING", topic)

create_database_alarms(cid, topic) ==
       (Id(cid, "RDSHighCPU") :> AlarmResource(RDSHighCPU(topic)))
    @@ (Id(cid, "RDSHighConnections") :> AlarmResource(RDSHighConnections(topic)))
    @@ (Id(cid, "DynamoDBThrottling") :> AlarmResource(DynamoDBThrottling(topic)))

create_custom_metrics(cid, topic) ==
       (Id(cid, "LowRegistrationRate") :> AlarmResource(
            Alarm("nz-companies-register-low-registration-rate",
                  "Company registration rate is unusually low",
                  Metric("NZCompaniesRegister/Business", "CompanyRegistrations",
                         NoDimensions, "Sum", Hours(1)),
                  5, 2, "LESS_THAN_THRESHOLD", "BREACHING", topic)))
    @@ (Id(cid, "SearchResponseTimeSLA") :> AlarmResource(
            Alarm("nz-companies-register-search-response-time-sla",
                  "Search response time exceeds SLA",
                  Metric("NZCompaniesRegister/Performance", "SearchResponseTime",
                         NoDimensions, "Average", Minutes(5)),
                  500, 2, "GREATER_THAN_THRESHOLD", "NOT_BREACHING", topic)))

GraphWidget(title, left, right) ==
    [title |-> title, left |-> left, right |-> right, width |-> 12, height |-> 6]

\* The rows self.dashboard.add_widgets adds, one per call.
setup_dashboard_widgets(compute) ==
    << << GraphWidget("Backend Service Metrics",
              << Metric("AWS/ECS", "CPUUtilization", ServiceDimensions(compute),
                        "Average", Minutes(5)),
                 Metric("AWS/ECS", "MemoryUtilization", ServiceDimensions(compute),
                        "Average", Minutes(5)) >>,
              << Metric("AWS/ECS", "RunningTaskCount", ServiceDimensions(compute),
                        "Average", Minutes(1)) >>),
          GraphWidget("ALB Metrics",
              << Metric("AWS/ApplicationELB", "TargetResponseTime",
                        AlbDimensions(compute), "Average", Minutes(5)) >>,
              << Metric("AWS/ApplicationELB", "RequestCount",
                        AlbDimensions(compute), "Sum", Minutes(5)) >>) >>,
       << GraphWidget("Database Metrics",
              << Metric("AWS/RDS", "CPUUtilization", DatabaseWidgetDimensions,
                        "Average", Minutes(5)) >>,
              << Metric("AWS/RDS", "DatabaseConnections", DatabaseWidgetDimensions,
                        "Average", Minutes(5)) >>) >>,
       << GraphWidget("Business Metrics",
              << Metric("NZCompaniesRegister/Business", "CompanyRegistrations",
                        NoDimensions, "Sum", Hours(1)),
                 Metric("NZCompaniesRegister/Business", "SearchRequests",
                        NoDimensions, "Sum", Minutes(5)) >>,
              << Metric("NZCompaniesRegister/Performance", "SearchResponseTime",
                        NoDimensions, "Average", Minutes(5)) >>) >> >>

\* The metrics of all widgets of a dashboard.
WidgetMetrics(rows) ==
    UNION { UNION { { rows[r][w].left[m] : m \in DOMAIN rows[r][w].left } \cup
                    { rows[r][w].right[m] : m \in DOMAIN rows[r][w].right } :
                    w \in DOMAIN rows[r] } :
            r \in DOMAIN rows }

MonitoringStackResources(cid, compute) ==
    LET topic == Id(cid, "AlertTopic")
        widgets == setup_dashboard_widgets(compute)
    IN  (topic :> [type |-> "AWS::SNS::Topic",
                   props |-> [topic_name |-> "nz-companies-register-alerts",
                              display_name |-> "NZ Companies Register Alerts"],
                   refs |-> {}])
     @@ (Id(cid, "Dashboard") :>
            [type |-> "AWS::CloudWatch::Dashboard",
             props |-> [dashboard_name |-> "NZ-Companies-Register-Dashboard",
                        widgets |-> widgets],
             refs |-> UNION { DimensionRefs(m.dimensions_map) : m \in WidgetMetrics(widgets) }])
     @@ create_application_alarms(cid, topic, compute)
     @@ create_infrastructure_alarms(cid, topic, compute)
     @@ create_database_alarms(cid, topic)
     @@ create_custom_metrics(cid, topic)

\* Tags.of(self).add at the end of setup_dashboard_widgets
MonitoringStackTags ==
    << <<"Project", "NZ Companies Register">>,
       <<"Environment", "Production">>,
       <<"Component", "Monitoring">> >>

MonitoringStackAttrs(cid) ==
    [alert_topic |-> Id(cid, "AlertTopic"), dashboard |-> Id(cid, "Dashboard")]

\* The compute_stack argument: the attributes of the stack read by MonitoringStack.
ComputeStackArgument ==
    [cluster |-> Attr("compute_stack", "cluster"),
     alb |-> Attr("compute_stack", "alb"),
     backend_service |-> Attr("compute_stack", "backend_service")]

MonitoringStackInit ==
    /\ Statement = "MonitoringStack"
    /\ Construct("monitoring_stack", "NzCompaniesMonitoring", "MonitoringStack", env,
                 MonitoringStackResources("NzCompaniesMonitoring", ComputeStackArgument),
                 MonitoringStackTags, MonitoringStackAttrs("NzCompaniesMonitoring"))

----------------------------------------------------------------------------
(* app.py: env, app.synth() *)

CreateEnvironment ==
    /\ Statement = "env"
    /\ env' = Environment(context)
    /\ pc' = pc + 1
    /\ UNCHANGED <<context, zones, stacks, app, stackTags, tree, template>>
    /\ UNCHANGED runVars

\* Resource types that carry no Tags property.
Untaggable ==
    { "AWS::SNS::Subscription", "AWS::IAM::Policy", "AWS::KMS::Alias",
      "AWS::ElasticLoadBalancingV2::Listener",
      "AWS::ElasticLoadBalancingV2::ListenerRule",
      "AWS::ApplicationAutoScaling::ScalableTarget",
      "AWS::ApplicationAutoScaling::ScalingPolicy",
      "AWS::CloudWatch::Dashboard" }

Taggable(type) == type \notin Untaggable

\* The tags a sequence of Tags.of(scope).add(key, value) calls leaves: for
\* each key the value of the last call.
AppliedTags(adds) ==
    [ k \in { adds[i][1] : i \in DOMAIN adds } |->
        LET last == CHOOSE i \in DOMAIN adds :
                        /\ adds[i][1] = k
                        /\ \A j \in DOMAIN adds : adds[j][1] = k => j <= i
        IN adds[last][2] ]

\* Stack a depends on stack b when a construct of a refers to one of b.
Dependencies(tr) ==
    UNION { { <<id[1], r[1]>> : r \in { x \in tr[id].refs : x[1] # id[1] } } :
            id \in DOMAIN tr }

Synth ==
    /\ Statement = "synth"
    /\ template' =
          [ id \in DOMAIN tree |->
              IF Taggable(tree[id].type)
              THEN tree[id] @@ [tags |-> AppliedTags(stackTags[id[1]])]
              ELSE tree[id] ]
    /\ pc' = pc + 1
    /\ UNCHANGED <<context, zones, env, stacks, app, stackTags, tree>>
    /\ UNCHANGED runVars

Init ==
    /\ pc = 1
    /\ context \in [account : Accounts, region : Regions]
    /\ zones \in 1..MaxZones
    /\ env = [account |-> None, region |-> None]
    /\ stacks = << >>
    /\ app = << >>
    /\ stackTags = << >>
    /\ tree = << >>
    /\ template = << >>
    /\ object = [state |-> "none"]
    /\ messages = [m \in 1..MaxMessages |-> [at |-> "new"]]
    /\ deployed = {}
    /\ cloud = {}
    /\ response = "none"
    /\ request = [state |-> "none"]
    /\ tasks = [state |-> "none"]
    /\ watch = [state |-> "none"]
    /\ images = [state |-> "none"]
    /\ reminder = [state |-> "none"]

Next ==
    \/ CreateEnvironment
    \/ VpcStackInit
    \/ SecurityStackInit
    \/ DatabaseStackInit
    \/ StorageStackInit
    \/ ComputeStackInit
    \/ MonitoringStackInit
    \/ Synth

Spec == Init /\ [][Next]_vars

----------------------------------------------------------------------------
(* The deployed application *)

\* cdk deploy --all of the synthesized application into an empty account.
Deploy ==
    /\ pc > Len(AppOrder)
    /\ deployed = {}
    /\ cloud = {}
    /\ deployed' = DOMAIN app
    /\ cloud' = DOMAIN template
    /\ response' = "deployed"
    /\ UNCHANGED <<pc, context, zones, env, stacks, app, stackTags, tree, template>>
    /\ UNCHANGED <<object, messages, request, tasks, watch,
                 images, reminder>>

Existing(type) == { id \in cloud : template[id].type = type }

(* S3 lifecycle: storage_stack.py, lifecycle_rules *)

\* The transitions of the enabled rules that are due at age days.
DueTransitions(rules, age) ==
    UNION { { rules[r].transitions[t] :
                t \in { u \in DOMAIN rules[r].transitions :
                           rules[r].transitions[u].transition_after <= age } } :
            r \in { q \in DOMAIN rules : rules[q].enabled } }

\* An enabled rule with an expiration of at most age days.
Expires(rules, age) ==
    \E r \in DOMAIN rules :
        /\ rules[r].enabled
        /\ "expiration" \in DOMAIN rules[r]
        /\ rules[r].expiration <= age

\* The object after the lifecycle rules are evaluated at its age.
Lifecycle(rules, obj) ==
    IF Expires(rules, obj.age) THEN [obj EXCEPT !.state = "expired"]
    ELSE LET due == DueTransitions(rules, obj.age)
         IN IF due = {} THEN obj
            ELSE LET last == CHOOSE t \in due :
                                 \A u \in due : u.transition_after <= t.transition_after
                 IN [obj EXCEPT !.storage_class = last.storage_class]

PutObject(bucket) ==
    /\ object.state = "none"
    /\ bucket \in Existing("AWS::S3::Bucket")
    /\ object' = [state |-> "stored", bucket |-> bucket, age |-> 0,
                  storage_class |-> "STANDARD"]
    /\ UNCHANGED <<pc, context, zones, env, stacks, app, stackTags, tree, template>>
    /\ UNCHANGED <<messages, deployed, cloud, response, request, tasks, watch,
                 images, reminder>>

\* One day passes and the lifecycle rules of the bucket are evaluated.
DayPasses ==
    /\ object.state = "stored"
    /\ object.age < MaxAge
    /\ object' = Lifecycle(template[object.bucket].props.lifecycle_rules,
                           [object EXCEPT !.age = @ + 1])
    /\ UNCHANGED <<pc, context, zones, env, stacks, app, stackTags, tree, template>>
    /\ UNCHANGED <<messages, deployed, cloud, response, request, tasks, watch,
                 images, reminder>>

NextLifecycle ==
    \/ Next
    \/ Deploy
    \/ \E bucket \in Existing("AWS::S3::Bucket") : PutObject(bucket)
    \/ DayPasses

SpecLifecycle == Init /\ [][NextLifecycle]_vars

(* SNS delivery: storage_stack.py, add_subscription *)

Subscriptions(topic) ==
    { s \in Existing("AWS::SNS::Subscription") : template[s].props.topic = topic }

Publish(m, topic) ==
    /\ messages[m].at = "new"
    /\ topic \in Existing("AWS::SNS::Topic")
    /\ messages' = [messages EXCEPT ![m] = [at |-> "topic", topic |-> topic]]
    /\ UNCHANGED <<pc, context, zones, env, stacks, app, stackTags, tree, template>>
    /\ UNCHANGED <<object, deployed, cloud, response, request, tasks, watch,
                 images, reminder>>

\* The topic delivers the message to the endpoint of subscription s.
Deliver(m, s) ==
    /\ messages[m].at = "topic"
    /\ s \in Subscriptions(messages[m].topic)
    /\ messages' = [messages EXCEPT ![m] =
                       [at |-> "queue", topic |-> messages[m].topic,
                        queue |-> template[s].props.endpoint, delivered |-> TRUE]]
    /\ UNCHANGED <<pc, context, zones, env, stacks, app, stackTags, tree, template>>
    /\ UNCHANGED <<object, deployed, cloud, response, request, tasks, watch,
                 images, reminder>>

\* Delivery to the endpoint of subscription s fails for good: the message
\* goes to the dead letter target of the redrive policy, if there is one.
DeliveryFails(m, s) ==
    /\ messages[m].at = "topic"
    /\ s \in Subscriptions(messages[m].topic)
    /\ messages' = [messages EXCEPT ![m] =
                       IF "redrive_policy" \in DOMAIN template[s].props
                       THEN [at |-> "queue", topic |-> messages[m].topic,
                             queue |-> template[s].props.redrive_policy.dead_letter_target,
                             delivered |-> FALSE]
                       ELSE [at |-> "dropped", topic |-> messages[m].topic]]
    /\ UNCHANGED <<pc, context, zones, env, stacks, app, stackTags, tree, template>>
    /\ UNCHANGED <<object, deployed, cloud, response, request, tasks, watch,
                 images, reminder>>

\* A message published to a topic without subscriptions reaches nobody.
Discard(m) ==
    /\ messages[m].at = "topic"
    /\ Subscriptions(messages[m].topic) = {}
    /\ messages' = [messages EXCEPT ![m] = [at |-> "dropped", topic |-> messages[m].topic]]
    /\ UNCHANGED <<pc, context, zones, env, stacks, app, stackTags, tree, template>>
    /\ UNCHANGED <<object, deployed, cloud, response, request, tasks, watch,
                 images, reminder>>

Handle(m) ==
    \/ \E s \in Existing("AWS::SNS::Subscription") : Deliver(m, s) \/ DeliveryFails(m, s)
    \/ Discard(m)

NextMessaging ==
    \/ Next
    \/ Deploy
    \/ \E m \in DOMAIN messages, topic \in Existing("AWS::SNS::Topic") : Publish(m, topic)
    \/ \E m \in DOMAIN messages, s \in Existing("AWS::SNS::Subscription") : Deliver(m, s)
    \/ \E m \in DOMAIN messages, s \in Existing("AWS::SNS::Subscription") : DeliveryFails(m, s)
    \/ \E m \in DOMAIN messages : Discard(m)

\* SNS handles every message published: it delivers it or gives up on it.
SpecMessaging ==
    /\ Init
    /\ [][NextMessaging]_vars
    /\ \A m \in 1..MaxMessages : WF_vars(Handle(m))

(* Deletion: database_stack.py, deletion_protection and removal_policy *)

\* The removal policy of a resource; DESTROY where none is declared.
RemovalPolicy(id) ==
    IF "removal_policy" \in DOMAIN template[id].props
    THEN template[id].props.removal_policy
    ELSE "DESTROY"

\* A request to delete database cluster c (rds delete-db-cluster).
DeleteCluster(c) ==
    /\ c \in Existing("AWS::RDS::DBCluster")
    /\ IF template[c].props.deletion_protection
       THEN /\ response' = "rejected"
            /\ cloud' = cloud
       ELSE /\ response' = "deleted"
            /\ cloud' = cloud \ {c}
    /\ UNCHANGED <<pc, context, zones, env, stacks, app, stackTags, tree, template>>
    /\ UNCHANGED <<object, messages, deployed, request, tasks, watch,
                 images, reminder>>

\* cdk destroy of stack cid, which no deployed stack depends on: its
\* resources are deleted, except those retained by their removal policy.
DestroyStack(cid) ==
    /\ cid \in deployed
    /\ \A d \in Dependencies(template) : d[2] = cid => d[1] \notin deployed
    /\ deployed' = deployed \ {cid}
    /\ cloud' = { id \in cloud : id[1] # cid \/ RemovalPolicy(id) = "RETAIN" }
    /\ response' = "destroyed"
    /\ UNCHANGED <<pc, context, zones, env, stacks, app, stackTags, tree, template>>
    /\ UNCHANGED <<object, messages, request, tasks, watch,
                 images, reminder>>

NextDeletion ==
    \/ Next
    \/ Deploy
    \/ \E c \in Existing("AWS::RDS::DBCluster") : DeleteCluster(c)
    \/ \E cid \in deployed : DestroyStack(cid)

SpecDeletion == Init /\ [][NextDeletion]_vars

----------------------------------------------------------------------------
(* Properties *)

Done == pc > Len(AppOrder)

Constructed(v) == v \in DOMAIN stacks

StacksOf(class) == { cid \in DOMAIN app : app[cid].class = class }

\* The constructs of type type declared by the stacks of class class.
Of(class, type) ==
    { id \in DOMAIN tree : id[1] \in StacksOf(class) /\ tree[id].type = type }

Component ==
    [VpcStack |-> "Networking", DatabaseStack |-> "Database",
     StorageStack |-> "Storage", ComputeStack |-> "Compute",
     MonitoringStack |-> "Monitoring", SecurityStack |-> "Security"]

\* C1: after synthesis every taggable resource of each of the six stacks
\* carries exactly the tags Project = NZ Companies Register, Environment =
\* Production and Component = the component of its own stack.
C1_TagsApplied ==
    Done =>
        \A id \in DOMAIN template :
            Taggable(template[id].type) =>
                /\ "tags" \in DOMAIN template[id]
                /\ template[id].tags =
                       [Project |-> "NZ Companies Register",
                        Environment |-> "Production",
                        Component |-> Component[app[id[1]].class]]

C1_Witness ==
    /\ Done
    /\ \A class \in DOMAIN Component :
          \E id \in DOMAIN template :
              /\ app[id[1]].class = class
              /\ Taggable(template[id].type)
              /\ template[id].tags.Component = Component[class]

RECURSIVE Closure(_, _)
Closure(R, n) ==
    IF n = 0 THEN R
    ELSE LET X == Closure(R, n - 1)
         IN X \cup { <<z[1][1], z[2][2]>> : z \in { y \in X \X X : y[1][2] = y[2][1] } }

Acyclic(R) ==
    \A p \in Closure(R, Cardinality(R)) : p[1] # p[2]

ClassDependencies ==
    { <<app[d[1]].class, app[d[2]].class>> : d \in Dependencies(tree) }

\* C2: whenever a stack is constructed, every construct its constructs refer
\* to has been constructed before; the cross-stack references are acyclic,
\* and at the end they are those of app.py: Database on Vpc, Compute on Vpc,
\* Database and Storage, Monitoring on Compute.
C2_ConstructedAfterDependencies ==
    /\ \A id \in DOMAIN tree : tree[id].refs \subseteq DOMAIN tree
    /\ Acyclic(Dependencies(tree))
    /\ Done =>
          ClassDependencies =
              { <<"DatabaseStack", "VpcStack">>, <<"ComputeStack", "VpcStack">>,
                <<"ComputeStack", "DatabaseStack">>, <<"ComputeStack", "StorageStack">>,
                <<"MonitoringStack", "ComputeStack">> }

C2_Witness ==
    /\ Done
    /\ Cardinality(DOMAIN app) = 6
    /\ Cardinality(Dependencies(tree)) = 5

\* The metrics of the alarms and of the dashboard widgets of MonitoringStack.
MonitoringMetrics ==
    { tree[id].props.metric : id \in Of("MonitoringStack", "AWS::CloudWatch::Alarm") }
    \cup UNION { WidgetMetrics(tree[id].props.widgets) :
                   id \in Of("MonitoringStack", "AWS::CloudWatch::Dashboard") }

DeclaredOnce(class, type, field, name) ==
    Cardinality({ id \in Of(class, type) : tree[id].props[field] = name }) = 1

FromComputeStack(v, type) ==
    /\ "ref" \in DOMAIN v
    /\ Constructed("compute_stack")
    /\ \E a \in DOMAIN stacks["compute_stack"] : stacks["compute_stack"][a] = v.ref
    /\ v.ref \in Of("ComputeStack", type)

DimensionResolves(k, v) ==
    CASE k = "DBClusterIdentifier" ->
            /\ "literal" \in DOMAIN v
            /\ DeclaredOnce("DatabaseStack", "AWS::RDS::DBCluster",
                            "cluster_identifier", v.literal)
      [] k = "TableName" ->
            /\ "literal" \in DOMAIN v
            /\ DeclaredOnce("DatabaseStack", "AWS::DynamoDB::Table",
                            "table_name", v.literal)
      [] k = "ServiceName" -> FromComputeStack(v, "AWS::ECS::Service")
      [] k = "ClusterName" -> FromComputeStack(v, "AWS::ECS::Cluster")
      [] k = "LoadBalancer" ->
            FromComputeStack(v, "AWS::ElasticLoadBalancingV2::LoadBalancer")
      [] OTHER -> TRUE

\* C3: every cluster identifier and table name a MonitoringStack alarm or
\* widget names literally is declared under that name in DatabaseStack, and
\* every service, cluster and load balancer dimension is an attribute of a
\* resource of the ComputeStack passed to MonitoringStack.
C3_MonitoredResourcesDeclared ==
    Constructed("monitoring_stack") =>
        \A m \in MonitoringMetrics :
            \A k \in DOMAIN m.dimensions_map :
                DimensionResolves(k, m.dimensions_map[k])

C3_Witness ==
    /\ Constructed("monitoring_stack")
    /\ \A k \in {"DBClusterIdentifier", "TableName", "ServiceName",
                  "ClusterName", "LoadBalancer"} :
          \E m \in MonitoringMetrics : k \in DOMAIN m.dimensions_map

\* C4: the buckets of StorageStack are the document and the logs bucket;
\* each blocks the four kinds of public access and is encrypted with aws:kms
\* under the key of StorageStack; the document bucket is versioned.
C4_BucketsPrivateAndEncrypted ==
    Constructed("storage_stack") =>
        /\ { tree[b].props.bucket_name : b \in Of("StorageStack", "AWS::S3::Bucket") } =
               { "nz-companies-register-documents", "nz-companies-register-logs" }
        /\ \A b \in Of("StorageStack", "AWS::S3::Bucket") :
              /\ tree[b].props.block_public_access.block_public_acls
              /\ tree[b].props.block_public_access.block_public_policy
              /\ tree[b].props.block_public_access.ignore_public_acls
              /\ tree[b].props.block_public_access.restrict_public_buckets
              /\ tree[b].props.encryption = "aws:kms"
              /\ tree[b].props.encryption_key = stacks["storage_stack"].kms_key
              /\ tree[tree[b].props.encryption_key].type = "AWS::KMS::Key"
              /\ tree[b].props.encryption_key[1] = b[1]
        /\ tree[stacks["storage_stack"].document_bucket].props.versioned

C4_Witness ==
    /\ Constructed("storage_stack")
    /\ Cardinality(Of("StorageStack", "AWS::S3::Bucket")) = 2

Queues == Of("StorageStack", "AWS::SQS::Queue")

\* C7: the queues of StorageStack are notifications, notifications-dlq,
\* reminders and reminders-dlq; each has a visibility timeout of 300 s, a
\* retention of 1209600 s = 14 days and KMS encryption under the StorageStack key.
C7_QueueSettings ==
    Constructed("storage_stack") =>
        /\ { tree[q].props.queue_name : q \in Queues } =
              { "nz-companies-register-notifications",
                "nz-companies-register-notifications-dlq",
                "nz-companies-register-reminders",
                "nz-companies-register-reminders-dlq" }
        /\ \A q \in Queues :
              /\ tree[q].props.visibility_timeout_seconds = 300
              /\ tree[q].props.message_retention_period_seconds = 1209600
              /\ tree[q].props.message_retention_period_seconds = 14 * 24 * 60 * 60
              /\ tree[q].props.encryption = "KMS"
              /\ tree[q].props.encryption_master_key = stacks["storage_stack"].kms_key

C7_Witness ==
    /\ Constructed("storage_stack")
    /\ Cardinality(Queues) = 4

Digit(c) ==
    CASE c = "0" -> 0 [] c = "1" -> 1 [] c = "2" -> 2 [] c = "3" -> 3
      [] c = "4" -> 4 [] c = "5" -> 5 [] c = "6" -> 6 [] c = "7" -> 7
      [] c = "8" -> 8 [] c = "9" -> 9

\* hh:mm at position i of s, in minutes of the day
TimeAt(s, i) ==
    (Digit(s[i]) * 10 + Digit(s[i + 1])) * 60 + Digit(s[i + 3]) * 10 + Digit(s[i + 4])

\* ddd at position i of s, as the day of the week, Monday = 0
DayAt(s, i) ==
    LET d == << s[i], s[i + 1], s[i + 2] >>
    IN CASE d = << "m", "o", "n" >> -> 0 [] d = << "t", "u", "e" >> -> 1
         [] d = << "w", "e", "d" >> -> 2 [] d = << "t", "h", "u" >> -> 3
         [] d = << "f", "r", "i" >> -> 4 [] d = << "s", "a", "t" >> -> 5
         [] d = << "s", "u", "n" >> -> 6

MinutesPerDay == 24 * 60
MinutesPerWeek == 7 * MinutesPerDay

\* The len minutes of the week from minute start on.
Interval(start, len) == { (start + k) % MinutesPerWeek : k \in 0..(len - 1) }

\* hh:mm-hh:mm, every day
BackupMinutes(w) ==
    UNION { Interval(d * MinutesPerDay + TimeAt(w, 1),
                     (TimeAt(w, 7) - TimeAt(w, 1)) % MinutesPerDay) : d \in 0..6 }

\* ddd:hh:mm-ddd:hh:mm
MaintenanceStart(w) == DayAt(w, 1) * MinutesPerDay + TimeAt(w, 5)
MaintenanceEnd(w) == DayAt(w, 11) * MinutesPerDay + TimeAt(w, 15)
MaintenanceMinutes(w) ==
    Interval(MaintenanceStart(w), (MaintenanceEnd(w) - MaintenanceStart(w)) % MinutesPerWeek)

Cluster == tree[stacks["database_stack"].database].props

\* C9: the backup window is 03:00-04:00 daily and the maintenance window
\* sun:04:00-sun:05:00; they share no minute of the week, and the Sunday
\* backup window ends at the minute the maintenance window starts.
C9_WindowsDisjoint ==
    Constructed("database_stack") =>
        /\ Cluster.backup.preferred_window =
              << "0", "3", ":", "0", "0", "-", "0", "4", ":", "0", "0" >>
        /\ Cluster.preferred_maintenance_window =
              << "s", "u", "n", ":", "0", "4", ":", "0", "0", "-",
                 "s", "u", "n", ":", "0", "5", ":", "0", "0" >>
        /\ BackupMinutes(Cluster.backup.preferred_window)
              \cap MaintenanceMinutes(Cluster.preferred_maintenance_window) = {}
        /\ 6 * MinutesPerDay + TimeAt(Cluster.backup.preferred_window, 7) =
              MaintenanceStart(Cluster.preferred_maintenance_window)

C9_Witness ==
    /\ Constructed("database_stack")
    /\ Cardinality(BackupMinutes(Cluster.backup.preferred_window)) = 7 * 60
    /\ Cardinality(MaintenanceMinutes(Cluster.preferred_maintenance_window)) = 60

Instances == Of("DatabaseStack", "AWS::RDS::DBInstance")

\* C10: the cluster has one writer and exactly one reader; every instance
\* is a db.r6g.large, not publicly accessible, with minor version upgrades
\* on, major version upgrades off, Performance Insights on and the
\* parameter group of the cluster.
C10_Instances ==
    Constructed("database_stack") =>
        /\ Cardinality({ i \in Instances : tree[i].props.role = "writer" }) = 1
        /\ Cardinality({ i \in Instances : tree[i].props.role = "reader" }) = 1
        /\ Cardinality(Instances) = 2
        /\ \A i \in Instances :
              /\ tree[i].props.cluster = stacks["database_stack"].database
              /\ tree[i].props.instance_class = "db.r6g.large"
              /\ ~tree[i].props.publicly_accessible
              /\ tree[i].props.auto_minor_version_upgrade
              /\ ~tree[i].props.allow_major_version_upgrade
              /\ tree[i].props.enable_performance_insights
              /\ tree[i].props.parameter_group = Cluster.parameter_group
              /\ tree[tree[i].props.parameter_group].type = "AWS::RDS::DBParameterGroup"

C10_Witness ==
    /\ Constructed("database_stack")
    /\ \E w, r \in Instances :
          tree[w].props.role = "writer" /\ tree[r].props.role = "reader"

StorageClassRank ==
    [STANDARD |-> 0, STANDARD_IA |-> 1, GLACIER |-> 2]

DocumentRules == tree[stacks["storage_stack"].document_bucket].props.lifecycle_rules

ObjectIn(bucket) ==
    /\ object.state # "none"
    /\ Constructed("storage_stack")
    /\ object.bucket = stacks["storage_stack"][bucket]

C5_ClassByAge ==
    /\ Constructed("storage_stack") =>
          /\ Len(DocumentRules) = 1
          /\ DocumentRules[1].id = "TransitionToIA"
          /\ DocumentRules[1].enabled
    /\ ObjectIn("document_bucket") =>
          /\ object.state = "stored"
          /\ object.age < 30 => object.storage_class = "STANDARD"
          /\ (object.age >= 30 /\ object.age < 90) => object.storage_class = "STANDARD_IA"
          /\ object.age >= 90 => object.storage_class = "GLACIER"
    /\ ObjectIn("logs_bucket") =>
          /\ object.age <= 365
          /\ object.state = "expired" <=> object.age = 365

C5_Forward ==
    (object.state # "none" /\ object'.state # "none") =>
        /\ StorageClassRank[object'.storage_class] >= StorageClassRank[object.storage_class]
        /\ object.state = "expired" => object'.state = "expired"

\* C5: under the single enabled rule TransitionToIA a document is STANDARD
\* below 30 days, STANDARD_IA from 30 and GLACIER from 90 days of age, never
\* moves back to an earlier class and is never expired; a log object is
\* deleted when its age reaches 365 days.
C5_Lifecycle == []C5_ClassByAge /\ [][C5_Forward]_vars

C5_Witness ==
    /\ ObjectIn("document_bucket")
    /\ object.age >= 365
    /\ object.state = "stored"
    /\ object.storage_class = "GLACIER"

NotificationSubscriptions ==
    { s \in Of("StorageStack", "AWS::SNS::Subscription") :
        tree[s].props.topic = stacks["storage_stack"].notification_topic }

PublishedToNotifications(m) ==
    /\ messages[m].at # "new"
    /\ Constructed("storage_stack")
    /\ messages[m].topic = stacks["storage_stack"].notification_topic

C6_Subscribed ==
    Constructed("storage_stack") =>
        /\ Cardinality(NotificationSubscriptions) = 1
        /\ \A s \in NotificationSubscriptions :
              /\ tree[s].props.protocol = "sqs"
              /\ tree[s].props.endpoint = stacks["storage_stack"].notification_queue
              /\ "redrive_policy" \in DOMAIN tree[s].props
              /\ tree[s].props.redrive_policy.dead_letter_target =
                    stacks["storage_stack"].notification_dlq

C6_Placed ==
    \A m \in DOMAIN messages :
        PublishedToNotifications(m) =>
            /\ messages[m].at \in {"topic", "queue"}
            /\ messages[m].at = "queue" =>
                  /\ messages[m].queue =
                        IF messages[m].delivered
                        THEN stacks["storage_stack"].notification_queue
                        ELSE stacks["storage_stack"].notification_dlq
                  /\ messages[m].queue # stacks["storage_stack"].reminder_queue
                  /\ messages[m].queue # stacks["storage_stack"].reminder_dlq

C6_InFlight ==
    \E m \in DOMAIN messages :
        PublishedToNotifications(m) /\ messages[m].at = "topic"

C6_AllPlaced ==
    \A m \in DOMAIN messages :
        PublishedToNotifications(m) => messages[m].at = "queue"

\* C6: the notification queue is the one subscription of the notification
\* topic, with protocol sqs and the notification DLQ as redrive target; a
\* message published to the topic ends up in the notification queue or, when
\* delivery fails, in the notification DLQ, never in a reminder queue
\* (whenever one is in flight, eventually all published ones are placed).
C6_NotificationsDelivered ==
    /\ [](C6_Subscribed /\ C6_Placed)
    /\ C6_InFlight ~> C6_AllPlaced

C6_Witness ==
    \E m, n \in DOMAIN messages :
        /\ PublishedToNotifications(m) /\ messages[m].at = "queue" /\ messages[m].delivered
        /\ PublishedToNotifications(n) /\ messages[n].at = "queue" /\ ~messages[n].delivered

C8_Declared ==
    Constructed("database_stack") =>
        /\ Cardinality(Of("DatabaseStack", "AWS::RDS::DBCluster")) = 1
        /\ Cluster.engine.engine = "aurora-postgresql"
        /\ Cluster.default_database_name = "nz_companies_register"
        /\ Cluster.storage_encrypted
        /\ Cluster.deletion_protection
        /\ Cluster.removal_policy = "RETAIN"
        /\ Cluster.backup.retention = 30 * 24 * 60 * 60
        /\ Cluster.cloudwatch_logs_exports = << "postgresql" >>

C8_Kept ==
    \A c \in Of("DatabaseStack", "AWS::RDS::DBCluster") : c \in cloud => c \in cloud'

\* C8: the cluster is declared with database nz_companies_register, storage
\* encryption, deletion protection, removal policy RETAIN, 30 days of backup
\* retention and the postgresql log export; once deployed, neither a request
\* to delete the cluster nor the deletion of DatabaseStack removes it.
C8_ClusterProtected == []C8_Declared /\ [][C8_Kept]_vars

C8_Witness ==
    /\ response = "rejected"
    /\ "NzCompaniesDatabase" \in DOMAIN app
    /\ "NzCompaniesDatabase" \notin deployed
    /\ stacks["database_stack"].database \in cloud

----------------------------------------------------------------------------
\* The documents table (database_stack.py).

DocumentTable == tree[stacks["database_stack"].document_table].props

\* The key attributes of the table and of its indexes, in order of
\* declaration.
KeyAttributes(table) ==
    LET Keys(x) == << x.partition_key, x.sort_key >>
        RECURSIVE IndexKeys(_)
        IndexKeys(seq) == IF seq = << >> THEN << >>
                          ELSE Keys(Head(seq)) \o IndexKeys(Tail(seq))
    IN  Keys(table) \o IndexKeys(table.global_secondary_indexes)

\* C11: the documents table is keyed (document_id HASH, version RANGE), has
\* exactly one global secondary index, CompanyIdIndex, keyed (company_id
\* HASH, created_at RANGE); its attribute definitions are exactly the four
\* key attributes, all strings, in the order document_id, version,
\* company_id, created_at; it is billed per request, encrypted at rest with
\* point-in-time recovery.
C11_DocumentTable ==
    Constructed("database_stack") =>
        /\ Cardinality(Of("DatabaseStack", "AWS::DynamoDB::Table")) = 1
        /\ DocumentTable.table_name = "nz-companies-register-documents"
        /\ DocumentTable.partition_key.name = "document_id"
        /\ DocumentTable.sort_key.name = "version"
        /\ Len(DocumentTable.global_secondary_indexes) = 1
        /\ DocumentTable.global_secondary_indexes[1].index_name = "CompanyIdIndex"
        /\ DocumentTable.global_secondary_indexes[1].partition_key.name = "company_id"
        /\ DocumentTable.global_secondary_indexes[1].sort_key.name = "created_at"
        /\ DocumentTable.attribute_definitions = KeyAttributes(DocumentTable)
        /\ DocumentTable.attribute_definitions =
              << [name |-> "document_id", type |-> "S"],
                 [name |-> "version", type |-> "S"],
                 [name |-> "company_id", type |-> "S"],
                 [name |-> "created_at", type |-> "S"] >>
        /\ DocumentTable.billing_mode = "PAY_PER_REQUEST"
        /\ DocumentTable.encryption \in {"AWS_MANAGED", "CUSTOMER_MANAGED"}
        /\ DocumentTable.point_in_time_recovery

C11_Witness ==
    /\ Constructed("database_stack")
    /\ Len(DocumentTable.global_secondary_indexes) = 1
    /\ Len(DocumentTable.attribute_definitions) = 4

----------------------------------------------------------------------------
\* The security groups (vpc_stack.py).

SecurityGroup(attr) == tree[stacks["vpc_stack"][attr]].props

\* The rules of a security group as a set of <<peer, protocol, port>>.
Rules(attr) ==
    { << r.peer, r.protocol, r.port >> :
        r \in { SecurityGroup(attr).ingress[i] :
                  i \in DOMAIN SecurityGroup(attr).ingress } }

\* Packets: the source is given by the set of security groups it belongs
\* to, which is empty for a source on the internet.
Packets ==
    [source : {{}} \cup { {g} : g \in Of("VpcStack", "AWS::EC2::SecurityGroup") },
     protocol : {"tcp", "udp"},
     port : {22, 80, 443, 5432, 8080}]

\* C12: the ALB group admits exactly tcp 80 and tcp 443 from 0.0.0.0/0, the
\* ECS group only tcp 8080 from the ALB group, the database group only tcp
\* 5432 from the ECS group; no packet from the internet is admitted by the
\* ECS or the database group.
C12_SecurityGroups ==
    Constructed("vpc_stack") =>
        /\ Rules("alb_security_group") =
              { << AnyIpv4, "tcp", 80 >>, << AnyIpv4, "tcp", 443 >> }
        /\ Rules("ecs_security_group") =
              { << [security_group |-> stacks["vpc_stack"].alb_security_group],
                   "tcp", 8080 >> }
        /\ Rules("database_security_group") =
              { << [security_group |-> stacks["vpc_stack"].ecs_security_group],
                   "tcp", 5432 >> }
        /\ \A p \in Packets :
              /\ Admits(SecurityGroup("alb_security_group").ingress, p)
                    <=> (p.protocol = "tcp" /\ p.port \in {80, 443})
              /\ Admits(SecurityGroup("ecs_security_group").ingress, p)
                    <=> /\ p.protocol = "tcp" /\ p.port = 8080
                        /\ stacks["vpc_stack"].alb_security_group \in p.source
              /\ Admits(SecurityGroup("database_security_group").ingress, p)
                    <=> /\ p.protocol = "tcp" /\ p.port = 5432
                        /\ stacks["vpc_stack"].ecs_security_group \in p.source
              /\ p.source = {} =>
                    /\ ~Admits(SecurityGroup("ecs_security_group").ingress, p)
                    /\ ~Admits(SecurityGroup("database_security_group").ingress, p)

C12_Witness ==
    /\ Constructed("vpc_stack")
    /\ \E p, q, r \in Packets :
          /\ p.source = {}
          /\ Admits(SecurityGroup("alb_security_group").ingress, p)
          /\ Admits(SecurityGroup("ecs_security_group").ingress, q)
          /\ Admits(SecurityGroup("database_security_group").ingress, r)

----------------------------------------------------------------------------
\* The subnets (vpc_stack.py).

Subnets == Of("VpcStack", "AWS::EC2::Subnet")

SubnetGroups ==
    { << "Public", "PUBLIC" >>, << "Private", "PRIVATE_WITH_EGRESS" >>,
      << "Database", "PRIVATE_ISOLATED" >> }

\* C13: three subnet groups (Public, Private with egress, Database
\* isolated), each with one /24 subnet in every zone used, over at most 3
\* zones; the subnets number 3 times the zones used, at least 6 when 2 zones
\* are available and at most 9; only public subnets map a public IP on
\* launch.
C13_Subnets ==
    Constructed("vpc_stack") =>
        LET used == IF zones < 3 THEN zones ELSE 3
        IN  /\ { << tree[s].props.group, tree[s].props.subnet_type >> : s \in Subnets }
                  = SubnetGroups
            /\ { tree[s].props.zone : s \in Subnets } = 1..used
            /\ \A g \in SubnetGroups : \A z \in 1..used :
                  Cardinality({ s \in Subnets : /\ tree[s].props.group = g[1]
                                                /\ tree[s].props.zone = z }) = 1
            /\ \A s \in Subnets :
                  /\ tree[s].props.cidr_mask = 24
                  /\ tree[s].props.map_public_ip_on_launch
                        <=> tree[s].props.group = "Public"
            /\ Cardinality(Subnets) = 3 * used
            /\ zones >= 2 => Cardinality(Subnets) >= 6
            /\ Cardinality(Subnets) <= 9

C13_Witness ==
    /\ Constructed("vpc_stack")
    /\ zones > 3
    /\ Cardinality(Subnets) = 9
    /\ \E s, t \in Subnets :
          tree[s].props.map_public_ip_on_launch /\ ~tree[t].props.map_public_ip_on_launch

----------------------------------------------------------------------------
\* Evaluation of an alarm (monitoring_stack.py: comparison_operator,
\* treat_missing_data, evaluation_periods).

\* The datapoint of a period without data.
Missing == -1

\* Whether the datapoint x of one period breaches the alarm's threshold.
Breaching(alarm, x) ==
    IF x = Missing THEN alarm.treat_missing_data = "BREACHING"
    ELSE CASE alarm.comparison_operator = "GREATER_THAN_THRESHOLD" ->
                  x > alarm.threshold
           [] alarm.comparison_operator = "LESS_THAN_THRESHOLD" ->
                  x < alarm.threshold

\* The alarm with logical id name in MonitoringStack.
AlarmNamed(name) ==
    tree[CHOOSE a \in Of("MonitoringStack", "AWS::CloudWatch::Alarm") : a[2] = name].props

\* The decimal number written by the characters of s.
RECURSIVE Decimal(_)
Decimal(s) ==
    IF s = << >> THEN 0
    ELSE Decimal(SubSeq(s, 1, Len(s) - 1)) * 10 + Digit(s[Len(s)])

\* max_connections of the parameter group of the cluster.
MaxConnections == Decimal(tree[Cluster.parameter_group].props.parameters.max_connections)

\* C14: the threshold of RDSHighConnections (160) is 80% of max_connections
\* (200) of the database parameter group, so the alarm's threshold is
\* crossed by connection counts below the limit and by every count that
\* reaches it.
C14_ConnectionsThreshold ==
    Constructed("monitoring_stack") =>
        LET alarm == AlarmNamed("RDSHighConnections")
        IN  /\ alarm.metric.metric_name = "DatabaseConnections"
            /\ alarm.metric.dimensions_map.DBClusterIdentifier
                  = Literal(Cluster.cluster_identifier)
            /\ alarm.threshold = 160
            /\ MaxConnections = 200
            /\ alarm.threshold * 100 = 80 * MaxConnections
            /\ \E n \in 0..MaxConnections : n < MaxConnections /\ Breaching(alarm, n)
            /\ \A n \in 0..(MaxConnections + 1) :
                  n >= MaxConnections => Breaching(alarm, n)

C14_Witness ==
    /\ Constructed("monitoring_stack")
    /\ Breaching(AlarmNamed("RDSHighConnections"), MaxConnections - 1)
    /\ ~Breaching(AlarmNamed("RDSHighConnections"), 160)

----------------------------------------------------------------------------
\* The environment of the stacks (app.py).

StackClasses ==
    { "VpcStack", "SecurityStack", "DatabaseStack", "StorageStack",
      "ComputeStack", "MonitoringStack" }

\* C15: every stack is created with the same environment: its account is
\* the context value account, its region the context value region when
\* that is set and not empty, and ap-southeast-2 otherwise; app.py creates
\* six stacks.
C15_OneEnvironment ==
    /\ \A cid \in DOMAIN app :
          /\ app[cid].env.account = context.account
          /\ app[cid].env.region =
                IF context.region # None /\ context.region # ""
                THEN context.region ELSE "ap-southeast-2"
    /\ \A c, d \in DOMAIN app : app[c].env = app[d].env
    /\ Done => /\ Cardinality(DOMAIN app) = 6
               /\ { app[cid].class : cid \in DOMAIN app } = StackClasses

C15_Witness ==
    /\ Done
    /\ context.region = ""
    /\ Cardinality(DOMAIN app) = 6
    /\ \A cid \in DOMAIN app : app[cid].env.region = "ap-southeast-2"

----------------------------------------------------------------------------
(* HTTP routing: compute_stack.py, listeners and listener rules *)

\* Whether string s matches path pattern p, where * stands for zero or more
\* characters and ? for exactly one.
RECURSIVE Glob(_, _)
Glob(p, s) ==
    IF p = << >> THEN s = << >>
    ELSE IF Head(p) = "*"
         THEN Glob(Tail(p), s) \/ (s # << >> /\ Glob(p, Tail(s)))
         ELSE /\ s # << >>
              /\ Head(p) = "?" \/ Head(p) = Head(s)
              /\ Glob(Tail(p), Tail(s))

\* A rule matches when each of its conditions has a matching pattern.
RuleMatches(rule, path) ==
    \A c \in DOMAIN rule.conditions :
        \E n \in DOMAIN rule.conditions[c].path_patterns :
            Glob(rule.conditions[c].path_patterns[n], path)

RulesOf(listener) ==
    { r \in Existing("AWS::ElasticLoadBalancingV2::ListenerRule") :
        template[r].props.listener = listener }

\* The listener takes the action of the matching rule of lowest priority
\* number, or its default action when no rule matches.
Route(listener, path) ==
    LET matching == { r \in RulesOf(listener) : RuleMatches(template[r].props, path) }
    IN  IF matching = {}
        THEN [rule |-> NoId, action |-> template[listener].props.default_action]
        ELSE LET first == CHOOSE r \in matching : \A q \in matching :
                              template[r].props.priority <= template[q].props.priority
             IN [rule |-> first, action |-> template[first].props.action]

PathChars == {"/", "a", "x"}

\* The beginnings of /api/.
Prefixes ==
    { SubSeq(<< "/", "a", "p", "i", "/" >>, 1, n) : n \in 1..5 }

\* Request paths: a beginning of /api/ followed by up to MaxSuffix
\* characters; every path starts with a slash.
Paths ==
    { prefix \o suffix :
        prefix \in Prefixes,
        suffix \in UNION { [1..n -> PathChars] : n \in 0..MaxSuffix } }

\* A request for path arrives at a listener of the load balancer, which
\* routes it; one request is observed at a time.
Request(listener, path) ==
    /\ request.state = "none"
    /\ listener \in Existing("AWS::ElasticLoadBalancingV2::Listener")
    /\ template[listener].props.load_balancer
          \in Existing("AWS::ElasticLoadBalancingV2::LoadBalancer")
    /\ request' = [state |-> "routed", listener |-> listener, path |-> path]
                    @@ Route(listener, path)
    /\ UNCHANGED <<pc, context, zones, env, stacks, app, stackTags, tree, template>>
    /\ UNCHANGED <<object, messages, deployed, cloud, response, tasks, watch,
                 images, reminder>>

\* The action taken for the request is carried out and the request ends.
Respond ==
    /\ request.state = "routed"
    /\ request' = [state |-> "none"]
    /\ UNCHANGED <<pc, context, zones, env, stacks, app, stackTags, tree, template>>
    /\ UNCHANGED <<object, messages, deployed, cloud, response, tasks, watch,
                 images, reminder>>

NextRouting ==
    \/ Next
    \/ Deploy
    \/ \E l \in Existing("AWS::ElasticLoadBalancingV2::Listener") :
          \E path \in Paths : Request(l, path)
    \/ Respond

SpecRouting == Init /\ [][NextRouting]_vars

----------------------------------------------------------------------------
\* Routing by the listeners (compute_stack.py).

ListenerOn(port) ==
    CHOOSE l \in Of("ComputeStack", "AWS::ElasticLoadBalancingV2::Listener") :
        tree[l].props.port = port

TargetGroupNamed(name) ==
    CHOOSE g \in Of("ComputeStack", "AWS::ElasticLoadBalancingV2::TargetGroup") :
        tree[g].props.target_group_name = name

\* The path begins with /api/.
UnderApi(path) ==
    Len(path) >= 5 /\ SubSeq(path, 1, 5) = << "/", "a", "p", "i", "/" >>

RoutedOn(port) ==
    request.state = "routed" /\ template[request.listener].props.port = port

\* C16: on the HTTPS listener (port 443) the two rules have distinct
\* priorities and are tried in ascending priority: a request under /api/ is
\* forwarded to the backend target group by the rule of priority 100, every
\* other request to the frontend target group by the rule of priority 200
\* (/*), and the fixed response 404 Not Found is given only to a request
\* that matches neither rule.
C16_HttpsRouting ==
    /\ Constructed("compute_stack") =>
          LET rules == { r \in Of("ComputeStack", "AWS::ElasticLoadBalancingV2::ListenerRule") :
                           tree[r].props.listener = ListenerOn(443) }
          IN  /\ Cardinality(rules) = 2
              /\ \A r, q \in rules :
                    r # q => tree[r].props.priority # tree[q].props.priority
              /\ tree[ListenerOn(443)].props.default_action.kind = "fixed_response"
              /\ tree[ListenerOn(443)].props.default_action.status_code = 404
              /\ tree[ListenerOn(443)].props.default_action.message_body = "Not Found"
    /\ RoutedOn(443) =>
          /\ request.action.kind = "forward"
          /\ request.rule # NoId
          /\ IF UnderApi(request.path)
             THEN /\ request.action.target_groups
                       = << TargetGroupNamed("nz-companies-backend-tg") >>
                  /\ template[request.rule].props.priority = 100
             ELSE /\ request.action.target_groups
                       = << TargetGroupNamed("nz-companies-frontend-tg") >>
                  /\ template[request.rule].props.priority = 200
          /\ \A r \in RulesOf(request.listener) :
                template[request.rule].props.priority <= template[r].props.priority
                  \/ ~RuleMatches(template[r].props, request.path)
    /\ (request.state = "routed" /\ request.action.kind = "fixed_response") =>
          \A r \in RulesOf(request.listener) :
              ~RuleMatches(template[r].props, request.path)

C16_Witness ==
    /\ RoutedOn(443)
    /\ UnderApi(request.path)
    /\ request.action.target_groups = << TargetGroupNamed("nz-companies-backend-tg") >>
    /\ \E r \in RulesOf(request.listener) :
          r # request.rule /\ RuleMatches(template[r].props, request.path)

\* C17: a request received on the HTTP listener (port 80) is answered with
\* a permanent redirect to HTTPS on port 443 and is never forwarded to a
\* target group.
C17_HttpRedirects ==
    RoutedOn(80) =>
        /\ request.rule = NoId
        /\ request.action.kind = "redirect"
        /\ request.action.permanent
        /\ request.action.protocol = "HTTPS"
        /\ request.action.port = "443"
        /\ "target_groups" \notin DOMAIN request.action

C17_Witness ==
    /\ RoutedOn(80)
    /\ UnderApi(request.path)
    /\ request.action.kind = "redirect"

----------------------------------------------------------------------------
(* Task count autoscaling: compute_stack.py, auto_scale_task_count and
   scale_on_cpu_utilization / scale_on_memory_utilization *)

ScalableTargetOf(service) ==
    CHOOSE t \in Existing("AWS::ApplicationAutoScaling::ScalableTarget") :
        template[t].props.service = service

PoliciesOf(service) ==
    { p \in Existing("AWS::ApplicationAutoScaling::ScalingPolicy") :
        template[p].props.service = service }

\* Utilization levels a metric is observed at, in percent.
Levels == {0, 40, 80, 160, 400}

Clamp(n, lo, hi) == IF n < lo THEN lo ELSE IF n > hi THEN hi ELSE n

\* The capacity at which a target-tracking policy would bring the metric
\* to its target: count * utilization / target, rounded up.
TargetCapacity(policy, count, utilization) ==
    (count * utilization[policy.metric] + policy.target_utilization_percent - 1)
        \div policy.target_utilization_percent

\* The policy asking for the largest capacity decides: the service scales
\* out when any policy asks for it and scales in only when all do.
Deciding(policies, count, utilization) ==
    CHOOSE p \in policies : \A q \in policies :
        TargetCapacity(p, count, utilization) >= TargetCapacity(q, count, utilization)

\* The service is created with its desired count.
StartService(service) ==
    /\ tasks.state = "none"
    /\ service \in Existing("AWS::ECS::Service")
    /\ tasks' = [state |-> "running", service |-> service,
                 desired |-> template[service].props.desired_count,
                 cooldown |-> [out |-> 0, in |-> 0]]
    /\ UNCHANGED <<pc, context, zones, env, stacks, app, stackTags, tree, template>>
    /\ UNCHANGED <<object, messages, deployed, cloud, response, request, watch,
                 images, reminder>>

\* A scaling step of the observed service at some utilization: the new
\* count is the deciding policy's capacity kept within the range of the
\* scalable target, once the cooldown of the direction has passed.
Scale ==
    /\ tasks.state = "running"
    /\ \E policies \in { { template[p].props : p \in PoliciesOf(tasks.service) } } :
       \E target \in { template[ScalableTargetOf(tasks.service)].props } :
       \E utilization \in [{"cpu", "memory"} -> Levels] :
          /\ policies # {}
          /\ LET policy == Deciding(policies, tasks.desired, utilization)
                 count  == Clamp(TargetCapacity(policy, tasks.desired, utilization),
                                 target.min_capacity, target.max_capacity)
             IN  \/ /\ count > tasks.desired
                    /\ tasks.cooldown.out = 0
                    /\ tasks' = [tasks EXCEPT !.desired = count,
                                     !.cooldown.out = policy.scale_out_cooldown]
                 \/ /\ count < tasks.desired
                    /\ tasks.cooldown.in = 0
                    /\ tasks' = [tasks EXCEPT !.desired = count,
                                     !.cooldown.in = policy.scale_in_cooldown]
    /\ UNCHANGED <<pc, context, zones, env, stacks, app, stackTags, tree, template>>
    /\ UNCHANGED <<object, messages, deployed, cloud, response, request, watch,
                 images, reminder>>

\* A minute passes.
MinutePasses ==
    /\ tasks.state = "running"
    /\ tasks.cooldown.out > 0 \/ tasks.cooldown.in > 0
    /\ tasks' = [tasks EXCEPT
                    !.cooldown.out = IF @ > Minutes(1) THEN @ - Minutes(1) ELSE 0,
                    !.cooldown.in  = IF @ > Minutes(1) THEN @ - Minutes(1) ELSE 0]
    /\ UNCHANGED <<pc, context, zones, env, stacks, app, stackTags, tree, template>>
    /\ UNCHANGED <<object, messages, deployed, cloud, response, request, watch,
                 images, reminder>>

NextScaling ==
    \/ Next
    \/ Deploy
    \/ \E s \in Existing("AWS::ECS::Service") : StartService(s)
    \/ Scale
    \/ MinutePasses

SpecScaling == Init /\ [][NextScaling]_vars

----------------------------------------------------------------------------
\* Autoscaling of the services (compute_stack.py).

\* The declared range of a service and its policies as
\* <<metric, target, scale-in cooldown, scale-out cooldown>>.
DeclaredRange(service) ==
    LET t == CHOOSE t \in Of("ComputeStack", "AWS::ApplicationAutoScaling::ScalableTarget") :
                 tree[t].props.service = service
    IN  << tree[t].props.min_capacity, tree[t].props.max_capacity >>

DeclaredPolicies(service) ==
    { << tree[p].props.metric, tree[p].props.target_utilization_percent,
         tree[p].props.scale_in_cooldown, tree[p].props.scale_out_cooldown >> :
        p \in { q \in Of("ComputeStack", "AWS::ApplicationAutoScaling::ScalingPolicy") :
                  tree[q].props.service = service } }

\* C18: the desired count of each Fargate service lies in its autoscaling
\* range (backend 2 in [2,10], frontend 2 in [2,6]); the policies track CPU
\* at 70% for both services and memory at 80% for the backend only, each
\* with 5-minute cooldowns; after any sequence of scale-out and scale-in
\* steps the task count of a service stays within its range.
C18_TaskCountInRange ==
    /\ Constructed("compute_stack") =>
          LET backend  == stacks["compute_stack"].backend_service
              frontend == stacks["compute_stack"].frontend_service
          IN  /\ Of("ComputeStack", "AWS::ECS::Service") = {backend, frontend}
              /\ tree[backend].props.desired_count = 2
              /\ tree[frontend].props.desired_count = 2
              /\ DeclaredRange(backend) = << 2, 10 >>
              /\ DeclaredRange(frontend) = << 2, 6 >>
              /\ DeclaredPolicies(backend) =
                    { << "cpu", 70, 5 * 60, 5 * 60 >>, << "memory", 80, 5 * 60, 5 * 60 >> }
              /\ DeclaredPolicies(frontend) = { << "cpu", 70, 5 * 60, 5 * 60 >> }
    /\ tasks.state = "running" =>
          /\ tasks.service = stacks["compute_stack"].backend_service
                => tasks.desired \in 2..10
          /\ tasks.service = stacks["compute_stack"].frontend_service
                => tasks.desired \in 2..6
          /\ tasks.desired >= DeclaredRange(tasks.service)[1]
          /\ tasks.desired <= DeclaredRange(tasks.service)[2]

C18_Witness ==
    /\ tasks.state = "running"
    /\ tasks.service = stacks["compute_stack"].frontend_service
    /\ tasks.desired = 2
    /\ tasks.cooldown.in > 0
    /\ tasks.cooldown.out > 0

----------------------------------------------------------------------------
(* Alarm evaluation: monitoring_stack.py, cloudwatch.Alarm *)

\* Datapoints a period of the alarm's metric may end with: none, or a value
\* at or next to the threshold.
Datapoints(alarm) ==
    {Missing, 0} \cup { x \in (alarm.threshold - 1)..(alarm.threshold + 1) : x >= 0 }

\* The state of an alarm after the given datapoints, the most recent last:
\* ALARM when the last evaluation_periods datapoints all breach.
Evaluate(alarm, datapoints) ==
    IF Len(datapoints) < alarm.evaluation_periods THEN "INSUFFICIENT_DATA"
    ELSE IF \A i \in DOMAIN datapoints : Breaching(alarm, datapoints[i])
         THEN "ALARM" ELSE "OK"

\* Alarm a is put under observation.
Watch(a) ==
    /\ watch.state = "none"
    /\ a \in Existing("AWS::CloudWatch::Alarm")
    /\ watch' = [state |-> "INSUFFICIENT_DATA", alarm |-> a,
                 datapoints |-> << >>, notified |-> {}]
    /\ UNCHANGED <<pc, context, zones, env, stacks, app, stackTags, tree, template>>
    /\ UNCHANGED <<object, messages, deployed, cloud, response, request, tasks,
                 images, reminder>>

\* A period of the metric ends with some datapoint x: the alarm is
\* evaluated over its last evaluation_periods datapoints and, when it
\* enters ALARM, its alarm actions publish to their topics.
Period ==
    /\ watch.state # "none"
    /\ \E alarm \in { template[watch.alarm].props } :
       \E x \in Datapoints(alarm) :
          LET all   == Append(watch.datapoints, x)
              last  == IF Len(all) > alarm.evaluation_periods
                       THEN SubSeq(all, Len(all) - alarm.evaluation_periods + 1, Len(all))
                       ELSE all
              state == Evaluate(alarm, last)
          IN  watch' = [watch EXCEPT
                  !.state = state,
                  !.datapoints = last,
                  !.notified =
                      IF state # "ALARM" THEN {}
                      ELSE IF watch.state = "ALARM" THEN @
                      ELSE { t \in alarm.alarm_actions : t \in Existing("AWS::SNS::Topic") }]
    /\ UNCHANGED <<pc, context, zones, env, stacks, app, stackTags, tree, template>>
    /\ UNCHANGED <<object, messages, deployed, cloud, response, request, tasks,
                 images, reminder>>

NextAlarms ==
    \/ Next
    \/ Deploy
    \/ \E a \in Existing("AWS::CloudWatch::Alarm") : Watch(a)
    \/ Period

SpecAlarms == Init /\ [][NextAlarms]_vars

----------------------------------------------------------------------------
\* The alarms (monitoring_stack.py).

Watching(name) == watch.state # "none" /\ watch.alarm[2] = name

\* The autoscaling minimum of the backend service.
BackendMinimum == DeclaredRange(stacks["compute_stack"].backend_service)[1]

\* C19: BackendTaskCountLow is in ALARM once the running task count of the
\* backend service was below the service's minimum (the autoscaling
\* minimum capacity, 2) for two consecutive 1-minute periods, a period
\* without data counting as breaching.
C19_TaskCountLowAlarm ==
    Watching("BackendTaskCountLow") =>
        /\ template[watch.alarm].props.metric.metric_name = "RunningTaskCount"
        /\ template[watch.alarm].props.metric.period = 60
        /\ template[watch.alarm].props.evaluation_periods = 2
        /\ BackendMinimum = 2
        /\ ( /\ Len(watch.datapoints) = 2
             /\ \A i \in DOMAIN watch.datapoints :
                   \/ watch.datapoints[i] = Missing
                   \/ watch.datapoints[i] < BackendMinimum )
              => watch.state = "ALARM"

Alarms == Of("MonitoringStack", "AWS::CloudWatch::Alarm")

AlertTopic == stacks["monitoring_stack"].alert_topic

\* C20: MonitoringStack declares eleven alarms and each has the alert
\* topic nz-companies-register-alerts as an alarm action, so an alarm that
\* enters ALARM publishes a notification to that topic.
C20_AlarmsNotify ==
    /\ Constructed("monitoring_stack") =>
          /\ Cardinality(Alarms) = 11
          /\ { a[2] : a \in Alarms } =
                { "BackendHighCPU", "BackendHighMemory", "BackendTaskCountLow",
                  "ALBHighLatency", "ALBHighErrorRate", "ECSClusterHighCPU",
                  "RDSHighCPU", "RDSHighConnections", "DynamoDBThrottling",
                  "LowRegistrationRate", "SearchResponseTimeSLA" }
          /\ tree[AlertTopic].type = "AWS::SNS::Topic"
          /\ tree[AlertTopic].props.topic_name = "nz-companies-register-alerts"
          /\ \A a \in Alarms : AlertTopic \in tree[a].props.alarm_actions
    /\ watch.state = "ALARM" => AlertTopic \in watch.notified

C20_Witness ==
    /\ Watching("SearchResponseTimeSLA")
    /\ watch.state = "ALARM"
    /\ watch.notified = {AlertTopic}

----------------------------------------------------------------------------
(* ECR image lifecycle: compute_stack.py, ecr.LifecycleRule *)

\* The images left by the lifecycle rules, images being numbered in order
\* of push: a rule with max_image_count expires all but the most recent
\* max_image_count images.
Retained(rules, held) ==
    { n \in held :
        \A r \in DOMAIN rules :
            Cardinality({ k \in held : k > n }) < rules[r].max_image_count }

\* An image is pushed to a repository; one repository is observed.
PushImage(repository) ==
    /\ repository \in Existing("AWS::ECR::Repository")
    /\ \/ /\ images.state = "none"
          /\ images' = [state |-> "pushed", repository |-> repository,
                        pushed |-> 1, held |-> {1}]
       \/ /\ images.state # "none"
          /\ images.repository = repository
          /\ images.pushed < MaxPushes
          /\ images' = [images EXCEPT !.state = "pushed", !.pushed = @ + 1,
                                      !.held = @ \cup {images.pushed + 1}]
    /\ UNCHANGED <<pc, context, zones, env, stacks, app, stackTags, tree, template>>
    /\ UNCHANGED <<object, messages, deployed, cloud, response, request, tasks, watch,
                   reminder>>

\* The lifecycle rules of the observed repository are evaluated.
EvaluateLifecycle ==
    /\ images.state = "pushed"
    /\ images' = [images EXCEPT
                     !.state = "evaluated",
                     !.held = Retained(template[images.repository].props.lifecycle_rules, @)]
    /\ UNCHANGED <<pc, context, zones, env, stacks, app, stackTags, tree, template>>
    /\ UNCHANGED <<object, messages, deployed, cloud, response, request, tasks, watch,
                   reminder>>

NextImages ==
    \/ Next
    \/ Deploy
    \/ \E r \in Existing("AWS::ECR::Repository") : PushImage(r)
    \/ EvaluateLifecycle

SpecImages == Init /\ [][NextImages]_vars

\* C21: each ECR repository keeps the last 10 images: after pushes followed
\* by an evaluation of the lifecycle rule, a repository holds at most 10
\* images, the 10 most recently pushed.
C21_KeepsLastTen ==
    /\ Constructed("compute_stack") =>
          /\ { tree[r].props.repository_name : r \in Of("ComputeStack", "AWS::ECR::Repository") }
                = { "nz-companies-register/backend", "nz-companies-register/frontend" }
          /\ \A r \in Of("ComputeStack", "AWS::ECR::Repository") :
                /\ Len(tree[r].props.lifecycle_rules) = 1
                /\ tree[r].props.lifecycle_rules[1].max_image_count = 10
    /\ images.state = "evaluated" =>
          /\ Cardinality(images.held) <= 10
          /\ images.held = { n \in 1..images.pushed : n > images.pushed - 10 }

C21_Witness ==
    /\ images.state = "evaluated"
    /\ images.pushed > 10
    /\ Cardinality(images.held) = 10
    /\ 1 \notin images.held

----------------------------------------------------------------------------
(* SQS processing: storage_stack.py, sqs.Queue *)

\* A message is sent to a queue; one message is observed.
SendMessage(queue) ==
    /\ reminder.state = "none"
    /\ queue \in Existing("AWS::SQS::Queue")
    /\ reminder' = [state |-> "queued", sent_to |-> queue, queue |-> queue,
                    receives |-> 0]
    /\ UNCHANGED <<pc, context, zones, env, stacks, app, stackTags, tree, template>>
    /\ UNCHANGED <<object, messages, deployed, cloud, response, request, tasks, watch,
                   images>>

\* A consumer receives the message and fails to process it: the message
\* becomes visible again after the visibility timeout, or moves to the dead
\* letter queue of its queue once it was received max_receive_count times.
ProcessingFails ==
    /\ reminder.state = "queued"
    /\ reminder.receives < MaxReceives
    /\ LET props == template[reminder.queue].props
       IN  IF /\ "dead_letter_queue" \in DOMAIN props
              /\ reminder.receives + 1 >= props.dead_letter_queue.max_receive_count
           THEN reminder' = [reminder EXCEPT !.queue = props.dead_letter_queue.queue,
                                            !.receives = 0]
           ELSE reminder' = [reminder EXCEPT !.receives = @ + 1]
    /\ UNCHANGED <<pc, context, zones, env, stacks, app, stackTags, tree, template>>
    /\ UNCHANGED <<object, messages, deployed, cloud, response, request, tasks, watch,
                   images>>

\* A consumer processes the message and deletes it.
ProcessingSucceeds ==
    /\ reminder.state = "queued"
    /\ reminder' = [reminder EXCEPT !.state = "processed"]
    /\ UNCHANGED <<pc, context, zones, env, stacks, app, stackTags, tree, template>>
    /\ UNCHANGED <<object, messages, deployed, cloud, response, request, tasks, watch,
                   images>>

\* The message stays in its queue for message_retention_period_seconds and
\* is then deleted by the queue.
RetentionExpires ==
    /\ reminder.state = "queued"
    /\ reminder' = [reminder EXCEPT !.state = "expired"]
    /\ UNCHANGED <<pc, context, zones, env, stacks, app, stackTags, tree, template>>
    /\ UNCHANGED <<object, messages, deployed, cloud, response, request, tasks, watch,
                   images>>

NextQueues ==
    \/ Next
    \/ Deploy
    \/ \E q \in Existing("AWS::SQS::Queue") : SendMessage(q)
    \/ ProcessingFails
    \/ ProcessingSucceeds
    \/ RetentionExpires

SpecQueues == Init /\ [][NextQueues]_vars

QueueNamed(name) ==
    CHOOSE q \in Of("StorageStack", "AWS::SQS::Queue") : tree[q].props.queue_name = name

\* C22: nz-companies-register-reminders-dlq is the dead letter queue of the
\* reminder queue nz-companies-register-reminders: a message sent to the
\* reminder queue that failed processing MaxReceives times has been moved
\* to the reminder DLQ.
C22_RemindersDeadLettered ==
    ( /\ reminder.state # "none"
      /\ reminder.sent_to = QueueNamed("nz-companies-register-reminders")
      /\ reminder.receives = MaxReceives )
        => reminder.queue = QueueNamed("nz-companies-register-reminders-dlq")

----------------------------------------------------------------------------
\* Use of the security groups (vpc_stack.py, compute_stack.py,
\* database_stack.py).

\* A resource is declared with a security group when it refers to it.
Attached(group, resource) == group \in tree[resource].refs

\* C23: each security group of VpcStack protects the resource its
\* description names: the ALB group is the security group of the load
\* balancer, the ECS group is attached to both Fargate services and the
\* database group to the Aurora cluster.
C23_SecurityGroupsAttached ==
    Done =>
        /\ Attached(stacks["vpc_stack"].alb_security_group, stacks["compute_stack"].alb)
        /\ Attached(stacks["vpc_stack"].ecs_security_group,
                    stacks["compute_stack"].backend_service)
        /\ Attached(stacks["vpc_stack"].ecs_security_group,
                    stacks["compute_stack"].frontend_service)
        /\ Attached(stacks["vpc_stack"].database_security_group,
                    stacks["database_stack"].database)

----------------------------------------------------------------------------
\* Placement of the resources (compute_stack.py, database_stack.py).

\* The subnets of the VPC selected by a subnet type.
Selected(subnet_type) == { n \in Subnets : tree[n].props.subnet_type = subnet_type }

\* The subnets a resource is placed in: a service and a subnet group select
\* by subnet type, the cluster and its instances use the subnet group, an
\* internet-facing load balancer takes the public subnets.
RECURSIVE Placement(_)
Placement(id) ==
    CASE tree[id].type \in {"AWS::ECS::Service", "AWS::RDS::DBSubnetGroup"} ->
             Selected(tree[id].props.subnet_type)
      [] tree[id].type = "AWS::RDS::DBCluster" -> Placement(tree[id].props.subnet_group)
      [] tree[id].type = "AWS::RDS::DBInstance" -> Placement(tree[id].props.cluster)
      [] tree[id].type = "AWS::ElasticLoadBalancingV2::LoadBalancer" ->
             Selected(IF tree[id].props.internet_facing
                      THEN "PUBLIC" ELSE "PRIVATE_WITH_EGRESS")
      [] OTHER -> {}

\* Whether a resource is given a public address.
PublicAddress(id) ==
    CASE tree[id].type = "AWS::ECS::Service" -> tree[id].props.assign_public_ip
      [] tree[id].type = "AWS::RDS::DBInstance" -> tree[id].props.publicly_accessible
      [] tree[id].type = "AWS::ElasticLoadBalancingV2::LoadBalancer" ->
             tree[id].props.internet_facing
      [] OTHER -> FALSE

Forwarded ==
    UNION { { tree[r].props.action.target_groups[n] :
                n \in DOMAIN tree[r].props.action.target_groups } :
            r \in { r \in Of("ComputeStack", "AWS::ElasticLoadBalancingV2::ListenerRule") :
                      tree[r].props.action.kind = "forward" } }
    \cup
    UNION { { tree[l].props.default_action.target_groups[n] :
                n \in DOMAIN tree[l].props.default_action.target_groups } :
            l \in { l \in Of("ComputeStack", "AWS::ElasticLoadBalancingV2::Listener") :
                      tree[l].props.default_action.kind = "forward" } }

----------------------------------------------------------------------------
\* Names in the policies of SecurityStack (security_stack.py) against the
\* names declared by the other stacks.

\* The ARNs of the resources declared outside SecurityStack that carry an
\* explicit name: buckets, tables and their indexes, topics and queues.
DeclaredArns ==
    LET Outside(type) == { id \in DOMAIN tree :
                             /\ id[1] \notin StacksOf("SecurityStack")
                             /\ tree[id].type = type }
    IN  { Arn("s3", "", "", << tree[b].props.bucket_name >>) :
            b \in Outside("AWS::S3::Bucket") }
        \cup { Arn("dynamodb", env.region, env.account,
                   << "table", tree[t].props.table_name >>) :
                 t \in Outside("AWS::DynamoDB::Table") }
        \cup UNION { { Arn("dynamodb", env.region, env.account,
                           << "table", tree[t].props.table_name, "index",
                              tree[t].props.global_secondary_indexes[n].index_name >>) :
                         n \in DOMAIN tree[t].props.global_secondary_indexes } :
                       t \in Outside("AWS::DynamoDB::Table") }
        \cup { Arn("sns", env.region, env.account, << tree[t].props.topic_name >>) :
                 t \in Outside("AWS::SNS::Topic") }
        \cup { Arn("sqs", env.region, env.account, << tree[q].props.queue_name >>) :
                 q \in Outside("AWS::SQS::Queue") }

\* A field of an ARN pattern matches a value when it is * or the value.
Field(pattern, value) == pattern = "*" \/ pattern = value

\* An ARN pattern of a statement covers an ARN.
Covers(pattern, arn) ==
    /\ pattern.service = arn.service
    /\ Field(pattern.region, arn.region)
    /\ Field(pattern.account, arn.account)
    /\ Glob(pattern.resource, arn.resource)

\* The statements that apply to a role: those of the policies attached to
\* it and those added to the role itself.
StatementsOf(role) ==
    UNION { { tree[p].props.policy_document[n] :
                n \in DOMAIN tree[p].props.policy_document } :
            p \in { p \in Of("SecurityStack", "AWS::IAM::Policy") :
                      role \in tree[p].props.roles } }
    \cup { tree[role].props.statements[n] : n \in DOMAIN tree[role].props.statements }

Allowed(role, action, arn) ==
    \E statement \in StatementsOf(role) :
        /\ statement.effect = "ALLOW"
        /\ action \in statement.actions
        /\ \E pattern \in statement.resources : Covers(pattern, arn)

\* The resource patterns of the policies of SecurityStack for a service.
PolicyArns(services) ==
    { a \in UNION { statement.resources :
                      statement \in StatementsOf(stacks["security_stack"].ecs_task_role)
                                     \cup StatementsOf(stacks["security_stack"].ecs_execution_role) } :
        a.service \in services }

\* The secrets declared with an explicit name, in any stack.
NamedSecrets ==
    { id \in DOMAIN tree : /\ tree[id].type = "AWS::SecretsManager::Secret"
                           /\ "secret_name" \in DOMAIN tree[id].props }

\* Secrets Manager ends the ARN of a secret with a suffix of its choosing.
SecretSuffixes == {"-AbCdEf", "-a1B2c3"}

SecretArn(id, suffix) ==
    Arn("secretsmanager", env.region, env.account,
        << "secret" >> \o tree[id].props.secret_name \o << suffix >>)

\* C26: every resource a SecurityStack policy names by a literal ARN or
\* pattern is declared under that name in another stack (the S3 bucket and
\* the DynamoDB table nz-companies-register-documents with its indexes, the
\* SNS topic nz-companies-register-notifications, the SQS queues
\* nz-companies-register-notifications and nz-companies-register-reminders),
\* and every secret declared with an explicit name (database, jwt-secret,
\* external-api-keys) has a name under nz-companies-register/ that the task
\* role and the execution role are allowed to read.
C26_PolicyNamesDeclared ==
    Done =>
        /\ \A a \in PolicyArns({"dynamodb", "sns", "sqs"}) :
              \E d \in DeclaredArns : Covers(a, d)
        /\ \A a \in PolicyArns({"s3"}) :
              \E d \in DeclaredArns :
                  Covers([a EXCEPT !.resource = << Head(a.resource) >>], d)
        /\ { << a.service, a.resource >> :
                a \in PolicyArns({"s3", "dynamodb", "sns", "sqs"}) } =
           { << "s3", << "nz-companies-register-documents" >> >>,
             << "s3", << "nz-companies-register-documents", "*" >> >>,
             << "dynamodb", << "table", "nz-companies-register-documents" >> >>,
             << "dynamodb", << "table", "nz-companies-register-documents", "index", "*" >> >>,
             << "sns", << "nz-companies-register-notifications" >> >>,
             << "sqs", << "nz-companies-register-notifications" >> >>,
             << "sqs", << "nz-companies-register-reminders" >> >> }
        /\ { tree[s].props.secret_name : s \in NamedSecrets } =
               { << "nz-companies-register", "database" >>,
                 << "nz-companies-register", "jwt-secret" >>,
                 << "nz-companies-register", "external-api-keys" >> }
        /\ \A s \in NamedSecrets : \A suffix \in SecretSuffixes :
              /\ Head(tree[s].props.secret_name) = "nz-companies-register"
              /\ Allowed(stacks["security_stack"].ecs_task_role,
                         "secretsmanager:GetSecretValue", SecretArn(s, suffix))
              /\ Allowed(stacks["security_stack"].ecs_execution_role,
                         "secretsmanager:GetSecretValue", SecretArn(s, suffix))

C26_Witness ==
    /\ Done
    /\ Cardinality(NamedSecrets) = 3
    /\ \E s \in NamedSecrets : s[1] \notin StacksOf("SecurityStack")
    /\ Cardinality(PolicyArns({"s3", "dynamodb", "sns", "sqs"})) = 7
    /\ \E d \in DeclaredArns :
          /\ d.service = "dynamodb"
          /\ Len(d.resource) = 4
          /\ \E a \in PolicyArns({"dynamodb"}) : Covers(a, d)
    /\ \E d \in DeclaredArns : \A a \in PolicyArns({"sqs"}) : ~Covers(a, d)

====
